---- MODULE Spec2Model ----
(***************************************************************************)
(* MORPHY: training-load state, decision cascade, compliance backfill and  *)
(* adaptive threshold learner, modelled from the Python sources.           *)
(*                                                                         *)
(* Number conventions (TLA+ has integers only):                            *)
(*   multipliers .................. thousandths  (1.0 is 1000)             *)
(*   decision thresholds .......... millionths   (1.5 is 1500000)          *)
(*   ACWR ......................... hundredths   (1.30 is 130)             *)
(*   loads, TSB, readiness ........ tenths       (-15.0 is -150)           *)
(*   time ......................... ticks of half a day                    *)
(*   a nullable number that the code reads with "x or 0" / "if x" is 0     *)
(*   when it is None.                                                      *)
(* Python rounds floats half-to-even on their binary value; the model      *)
(* rounds the exact quotient half up.                                      *)
(***************************************************************************)
EXTENDS Integers, Sequences, FiniteSets, TLC

VARIABLES
    adj,          \* the user's athlete_threshold_adjustments row, or NoRow
    feedback,     \* the user's decision_feedback rows, in insertion order
    activities,   \* the user's activities rows (a set)
    user,         \* the users row: max_hr, rest_hr (0 is NULL)
    now,          \* datetime.utcnow(), in ticks
    response,     \* the last answer of the service to a request
    bf,           \* run_compliance_inference: the position of its day loop
    de,           \* DecisionEngine.generate_decision: arguments and result
    calc,         \* AthleteStateCalculator.calculate_state: arguments and result
    ci,           \* infer_compliance: arguments and result
    dp            \* detect_phase: arguments and result

vars == <<adj, feedback, activities, user, now, response, bf, de, calc, ci, dp>>

(***************************************************************************)
(* Bounds of the model.                                                    *)
(***************************************************************************)
MaxFeedback == 2      \* feedback rows a behaviour stores through POST /feedback/

(***************************************************************************)
(* Small helpers.                                                          *)
(***************************************************************************)
Max(a, b) == IF a >= b THEN a ELSE b
Min(a, b) == IF a <= b THEN a ELSE b
abs(x) == IF x < 0 THEN 0 - x ELSE x

\* round(n / d) for d > 0, half away from zero
RoundDiv(n, d) ==
    IF n >= 0 THEN (2 * n + d) \div (2 * d)
    ELSE 0 - ((2 * (0 - n) + d) \div (2 * d))

(***************************************************************************)
(* learning_engine.py                                                      *)
(***************************************************************************)
STEP == 30
MULT_MIN == 700
MULT_MAX == 1300
FEEDBACK_LIMIT == 100

MIN_SIGNALS(speed) ==
    CASE speed = "conservative" -> 10
      [] speed = "moderate" -> 5
      [] speed = "fast" -> 3
      [] OTHER -> 5

clamp_unbounded(v) == v

clamp(v) == Max(MULT_MIN, Min(MULT_MAX, v))

NoRow == [exists |-> FALSE]

\* AthleteThresholdAdjustment(user_id=...) with the column defaults
NewAdjustment ==
    [ exists                   |-> TRUE,
      tsb_rest_multiplier      |-> 1000,
      tsb_reduce_multiplier    |-> 1000,
      acwr_danger_multiplier   |-> 1000,
      acwr_caution_multiplier  |-> 1000,
      readiness_low_multiplier |-> 1000,
      rest_followed            |-> 0,
      rest_ignored             |-> 0,
      rest_good_ignore         |-> 0,
      rest_bad_ignore          |-> 0,
      reduce_followed          |-> 0,
      reduce_ignored           |-> 0,
      increase_followed        |-> 0,
      increase_ignored         |-> 0,
      total_analyzed           |-> 0,
      learning_speed           |-> "moderate",
      custom_min_signals       |-> 5 ]

get_or_create_thresholds(row) == IF row.exists THEN row ELSE NewAdjustment

get_min_signals(a) ==
    IF a.learning_speed = "custom"
    THEN (IF a.custom_min_signals # 0 THEN a.custom_min_signals ELSE 5)
    ELSE MIN_SIGNALS(a.learning_speed)

\* the query without its LIMIT
RecentFeedbacks_unlimited(store) == 1 .. Len(store)

\* the rows of the query: ORDER BY date DESC LIMIT 100 (indices into the store);
\* a row is returned when fewer than 100 rows come before it in that order.
\* Rows of one date come in an order the database chooses: here the row
\* stored later first (the stores of more than 100 rows have distinct dates).
RecentFeedbacks(store) ==
    IF Len(store) <= FEEDBACK_LIMIT
    THEN 1 .. Len(store)
    ELSE { i \in 1 .. Len(store) :
             Cardinality({ j \in 1 .. Len(store) :
                             \/ store[j].date > store[i].date
                             \/ store[j].date = store[i].date /\ j > i })
                 < FEEDBACK_LIMIT }

\* the map with "maintain" put in the moderate category
action_map_maintain_counted(action) ==
    CASE action = "rest" -> "active_recovery"
      [] action = "reduce" -> "easy"
      [] action = "increase" -> "quality"
      [] action = "maintain" -> "moderate"
      [] OTHER -> action

\* action_map.get(f.action, f.action)
action_map(action) ==
    CASE action = "rest" -> "active_recovery"
      [] action = "reduce" -> "easy"
      [] action = "increase" -> "quality"
      [] OTHER -> action

SignalKeys == {"active_recovery", "easy", "moderate", "quality"}

\* signals[key]["followed" | "ignored"] after the counting loop
Signals(store, key, followed) ==
    Cardinality({ i \in RecentFeedbacks(store) :
                    /\ action_map(store[i].action) = key
                    /\ store[i].followed = followed })

\* the adjustment without its threshold of min_signals observations
CategoryAdjust_any_signal(old, followed, ignored, min_signals, high_num, high_den) ==
    LET total == followed + ignored IN
    IF total >= 1
    THEN IF ignored * high_den > high_num * total
         THEN clamp(old + STEP)
         ELSE IF ignored * 10 < 2 * total /\ total >= min_signals * 2
              THEN clamp(old - STEP \div 2)
              ELSE old
    ELSE old

\* the adjustment lowering without twice min_signals observations
CategoryAdjust_lower_early(old, followed, ignored, min_signals, high_num, high_den) ==
    LET total == followed + ignored IN
    IF total >= min_signals
    THEN IF ignored * high_den > high_num * total
         THEN clamp(old + STEP)
         ELSE IF ignored * 10 < 2 * total
              THEN clamp(old - STEP \div 2)
              ELSE old
    ELSE old

\* the adjustment with half the step upwards
\* the adjustment applied to the default 1.0, not to the stored multiplier
CategoryAdjust_from_default(old, followed, ignored, min_signals, high_num, high_den) ==
    LET total == followed + ignored IN
    IF total >= min_signals
    THEN IF ignored * high_den > high_num * total
         THEN clamp(1000 + STEP)
         ELSE IF ignored * 10 < 2 * total /\ total >= min_signals * 2
              THEN clamp(1000 - STEP \div 2)
              ELSE old
    ELSE old

CategoryAdjust_half_step(old, followed, ignored, min_signals, high_num, high_den) ==
    LET total == followed + ignored IN
    IF total >= min_signals
    THEN IF ignored * high_den > high_num * total
         THEN clamp(old + STEP \div 2)
         ELSE IF ignored * 10 < 2 * total /\ total >= min_signals * 2
              THEN clamp(old - STEP \div 2)
              ELSE old
    ELSE old

\* AJUSTE 1 and 2: the new value of a category multiplier
CategoryAdjust(old, followed, ignored, min_signals, high_num, high_den) ==
    LET total == followed + ignored IN
    IF total >= min_signals
    THEN IF ignored * high_den > high_num * total
         THEN clamp(old + STEP)
         ELSE IF ignored * 10 < 2 * total /\ total >= min_signals * 2
              THEN clamp(old - STEP \div 2)
              ELSE old
    ELSE old

\* the cross-category adjustment from min_signals observations on
OverallAdjust_from_min_signals(old, all_total, all_ignored, min_signals) ==
    IF all_total >= min_signals /\ all_ignored * 10 > 7 * all_total
    THEN clamp(old + STEP \div 2)
    ELSE old

\* AJUSTE 3: the new value of tsb_rest_multiplier
OverallAdjust(old, all_total, all_ignored, min_signals) ==
    IF all_total >= min_signals * 2 /\ all_ignored * 10 > 7 * all_total
    THEN clamp(old + STEP \div 2)
    ELSE old

\* the run with a third adjustment by category, of tsb_reduce_multiplier
\* from the answers to "increase"
analyze_and_update_tunes_increase(a, store) ==
    LET min_signals == get_min_signals(a)
        rf == Signals(store, "active_recovery", TRUE)
        ri == Signals(store, "active_recovery", FALSE)
        ef == Signals(store, "easy", TRUE)
        ei == Signals(store, "easy", FALSE)
        mf == Signals(store, "moderate", TRUE)
        mi == Signals(store, "moderate", FALSE)
        qf == Signals(store, "quality", TRUE)
        qi == Signals(store, "quality", FALSE)
        all_total == rf + ri + ef + ei + mf + mi + qf + qi
        all_ignored == ri + ei + mi + qi
    IN  [ a EXCEPT
            !.acwr_danger_multiplier =
                CategoryAdjust(@, rf, ri, min_signals, 6, 10),
            !.acwr_caution_multiplier =
                CategoryAdjust(@, ef, ei, min_signals, 65, 100),
            !.tsb_reduce_multiplier =
                CategoryAdjust(@, qf, qi, min_signals, 65, 100),
            !.tsb_rest_multiplier =
                OverallAdjust(@, all_total, all_ignored, min_signals),
            !.rest_followed = rf,
            !.rest_ignored = ri,
            !.reduce_followed = ef,
            !.reduce_ignored = ei,
            !.increase_followed = qf,
            !.increase_ignored = qi,
            !.total_analyzed = all_total ]

\* analyze_and_update on the row a (after get_or_create_thresholds) and the store
analyze_and_update(a, store) ==
    LET min_signals == get_min_signals(a)
        rf == Signals(store, "active_recovery", TRUE)
        ri == Signals(store, "active_recovery", FALSE)
        ef == Signals(store, "easy", TRUE)
        ei == Signals(store, "easy", FALSE)
        mf == Signals(store, "moderate", TRUE)
        mi == Signals(store, "moderate", FALSE)
        qf == Signals(store, "quality", TRUE)
        qi == Signals(store, "quality", FALSE)
        all_total == rf + ri + ef + ei + mf + mi + qf + qi
        all_ignored == ri + ei + mi + qi
    IN  [ a EXCEPT
            !.acwr_danger_multiplier =
                CategoryAdjust(@, rf, ri, min_signals, 6, 10),
            !.acwr_caution_multiplier =
                CategoryAdjust(@, ef, ei, min_signals, 65, 100),
            !.tsb_rest_multiplier =
                OverallAdjust(@, all_total, all_ignored, min_signals),
            !.rest_followed = rf,
            !.rest_ignored = ri,
            !.reduce_followed = ef,
            !.reduce_ignored = ei,
            !.increase_followed = qf,
            !.increase_ignored = qi,
            !.total_analyzed = all_total ]

\* the row after a call of analyze_and_update: with no feedback it returns
\* before any commit, and a row created by the call is not kept
AfterAnalysis(row, store) ==
    IF Len(store) = 0 THEN row
    ELSE analyze_and_update(get_or_create_thresholds(row), store)

(***************************************************************************)
(* Time: a tick is half a day; a calendar day is two ticks.                *)
(***************************************************************************)
TicksPerDay == 2

\* now.replace(hour=0, minute=0, second=0, microsecond=0)
Midnight(t) == t - (t % TicksPerDay)

(***************************************************************************)
(* routers/decision.py: the state and the decision the HTTP layer and the  *)
(* compliance backfill compute.                                            *)
(***************************************************************************)
\* math.exp(-d / 7.0) * 1000 for d = k / 2 days, k = 0 .. 14
ExpDecay7 ==
    << 1000, 931, 867, 807, 751, 700, 651, 607, 565, 526, 490, 456,
       424, 395, 368 >>

\* math.exp(-d / 42.0) * 1000 for d = k / 2 days, k = 0 .. 84
ExpDecay42 ==
    << 1000, 988, 976, 965, 953, 942, 931, 920, 909, 898, 888, 877,
       867, 857, 846, 836, 827, 817, 807, 798, 788, 779, 770, 760,
       751, 743, 734, 725, 717, 708, 700, 691, 683, 675, 667, 659,
       651, 644, 636, 629, 621, 614, 607, 599, 592, 585, 578, 571,
       565, 558, 551, 545, 538, 532, 526, 520, 513, 507, 501, 495,
       490, 484, 478, 472, 467, 461, 456, 450, 445, 440, 435, 429,
       424, 419, 414, 409, 405, 400, 395, 390, 386, 381, 377, 372,
       368 >>

\* hrr * 0.64 * 2.718 ** (1.92 * hrr) * 1000 for hrr = p / 100, p = 1 .. 100
TrimpPerMinute ==
    << 7, 13, 20, 28, 35, 43, 51, 60, 68, 78, 87, 97,
       107, 117, 128, 139, 151, 163, 175, 188, 201, 215, 229, 243,
       259, 274, 290, 307, 324, 342, 360, 379, 398, 418, 439, 460,
       482, 504, 528, 552, 577, 602, 628, 655, 683, 712, 742, 772,
       803, 836, 869, 903, 938, 975, 1012, 1050, 1090, 1130, 1172, 1215,
       1259, 1305, 1351, 1399, 1449, 1500, 1552, 1606, 1661, 1718, 1776, 1836,
       1897, 1961, 2026, 2092, 2161, 2232, 2304, 2378, 2455, 2533, 2614, 2697,
       2782, 2869, 2958, 3050, 3145, 3242, 3342, 3444, 3549, 3656, 3767, 3880,
       3997, 4116, 4239, 4365 >>

\* trimp(a) in tenths; hrr is taken to the nearest hundredth.
\* Raises ZeroDivisionError when max_hr = rest_hr and the activity has a heart rate.
trimp_raises(a, max_hr, rest_hr) ==
    a.duration_min > 0 /\ a.avg_hr > 0 /\ max_hr = rest_hr

trimp(a, max_hr, rest_hr) ==
    IF a.duration_min <= 0 THEN 0
    ELSE IF a.avg_hr <= 0 THEN a.duration_min * 5
    ELSE LET reserve == max_hr - rest_hr
             pct == IF reserve > 0
                    THEN RoundDiv((a.avg_hr - rest_hr) * 100, reserve)
                    ELSE 0 - RoundDiv((a.avg_hr - rest_hr) * 100, 0 - reserve)
             hrr == Max(10, Min(100, pct))
         IN  RoundDiv(a.duration_min * TrimpPerMinute[hrr], 100)

\* days_ago(a) in ticks, measured from the moment ref (the code's now)
days_ago(a, ref) == ref - a.start_date

\* sum over the activities S of trimp times the decay weight of the table w
RECURSIVE WeightedLoad(_, _, _, _, _)
WeightedLoad(S, ref, w, max_hr, rest_hr) ==
    IF S = {} THEN 0
    ELSE LET a == CHOOSE x \in S : TRUE
         IN  trimp(a, max_hr, rest_hr) * w[days_ago(a, ref) + 1]
               + WeightedLoad(S \ {a}, ref, w, max_hr, rest_hr)

\* readiness of calculate_athlete_state, in tenths
RouterReadiness(acwr, tsb) ==
    LET r0 == 1000
        r1 == IF acwr > 150 THEN r0 - 600
              ELSE IF acwr > 130 THEN r0 - 300
              ELSE IF acwr < 70 THEN r0 - 100
              ELSE r0
        r2 == IF tsb < -200 THEN r1 - 300
              ELSE IF tsb < -100 THEN r1 - 150
              ELSE r1
    IN  Max(0, Min(1000, r2))

\* calculate_athlete_state(activities, max_hr, rest_hr) called at the moment ref.
\* No stored activity starts after ref, so no age is negative.
calculate_athlete_state(acts, ref, max_hr, rest_hr) ==
    LET acute == { a \in acts : days_ago(a, ref) <= 7 * TicksPerDay }
        chronic == { a \in acts : days_ago(a, ref) <= 42 * TicksPerDay }
        acute_load == WeightedLoad(acute, ref, ExpDecay7, max_hr, rest_hr)
        chronic_load == WeightedLoad(chronic, ref, ExpDecay42, max_hr, rest_hr)
        chronic_count == Cardinality(chronic)
        atl == RoundDiv(acute_load * 42, Max(chronic_count, 1) * 10000)
        ctl == RoundDiv(chronic_load * 63, Max(chronic_count * 6, 1) * 10000)
        tsb == ctl - atl
        acwr == IF ctl > 0 THEN RoundDiv(atl * 100, ctl) ELSE 0
        readiness == RouterReadiness(acwr, tsb)
    IN  [ acute_load_atl     |-> atl,
          chronic_load_ctl   |-> ctl,
          stress_balance_tsb |-> tsb,
          acwr               |-> acwr,
          readiness_score    |-> readiness,
          injury_risk        |-> IF readiness < 200 \/ acwr > 150 THEN "high"
                                 ELSE IF readiness < 500 \/ acwr > 130 THEN "moderate"
                                 ELSE "low" ]

\* the thresholds generate_decision compares the ACWR against: the literals
\* 1.5 and 1.3 of lines 102 and 110
RouterThresholds == [ acwr_danger |-> 1500000, acwr_caution |-> 1300000 ]

\* generate_decision(state, athlete_name): the action and the confidence (hundredths)
generate_decision(state) ==
    IF state.acwr * 10000 > RouterThresholds.acwr_danger \/ state.readiness_score < 200
    THEN [ action |-> "rest", confidence |-> 92 ]
    ELSE IF state.acwr * 10000 > RouterThresholds.acwr_caution \/ state.injury_risk = "moderate"
    THEN [ action |-> "reduce", confidence |-> 85 ]
    ELSE IF state.stress_balance_tsb > 50 /\ 70 <= state.acwr /\ state.acwr < 100
    THEN [ action |-> "increase", confidence |-> 80 ]
    ELSE IF 0 < state.acwr /\ state.acwr < 70
    THEN [ action |-> "increase", confidence |-> 75 ]
    ELSE [ action |-> "maintain", confidence |-> 88 ]

\* get_effective_thresholds(user_id, db)
get_effective_thresholds(row) ==
    LET a == get_or_create_thresholds(row) IN
    [ acwr_danger     |-> 1500 * a.acwr_danger_multiplier,
      acwr_caution    |-> 1300 * a.acwr_caution_multiplier,
      tsb_fatigued    |-> (0 - 15000) * a.tsb_rest_multiplier,
      is_personalized |-> a.total_analyzed >= get_min_signals(a),
      total_analyzed  |-> a.total_analyzed ]

(***************************************************************************)
(* The rows of the database.                                               *)
(***************************************************************************)
Epoch == 50 * TicksPerDay     \* a midnight; every moment of the model is near it

\* Activity rows: id, start_date (ticks), duration_min, avg_hr (0 is NULL)
Act(id, start, dur, hr) ==
    [ id |-> id, start_date |-> start, duration_min |-> dur, avg_hr |-> hr ]

\* a DecisionFeedback row
FeedbackRow(date, action, followed, auto, st, hr, dur, zone, reason, used) ==
    [ date                  |-> date,
      action                |-> action,
      followed              |-> followed,
      acwr                  |-> st.acwr,
      readiness             |-> st.readiness_score,
      tsb                   |-> st.stress_balance_tsb,
      auto_inferred         |-> auto,
      activity_avg_hr       |-> hr,
      activity_duration_min |-> dur,
      detected_zone         |-> zone,
      compliance_reason     |-> reason,
      used                  |-> used ]   \* ids of the activities the row was computed from

\* the optional acwr, readiness and tsb of a FeedbackPayload, left out
NoMetrics == [ acwr |-> 0, readiness_score |-> 0, stress_balance_tsb |-> 0 ]

\* User rows: max_hr and rest_hr (0 is NULL)
DefaultUser == [ max_hr |-> 0, rest_hr |-> 0 ]
ProfiledUser == [ max_hr |-> 190, rest_hr |-> 60 ]
FlatUser == [ max_hr |-> 60, rest_hr |-> 60 ]

\* float(user.max_hr or 182), float(user.rest_hr or 50)
MaxHr(u) == IF u.max_hr # 0 THEN u.max_hr ELSE 182
RestHr(u) == IF u.rest_hr # 0 THEN u.rest_hr ELSE 50

(***************************************************************************)
(* GET /morphy/state and GET /morphy/decision                              *)
(***************************************************************************)
NoResponse == [ status |-> 0, endpoint |-> "" ]

\* .where(Activity.start_date >= cutoff), cutoff = utcnow() - 42 days
Last42Days(acts, t) == { a \in acts : a.start_date >= t - 42 * TicksPerDay }

\* the exception of calculate_athlete_state: a division by max_hr - rest_hr
StateRaises(acts, max_hr, rest_hr) ==
    \E a \in acts : trimp_raises(a, max_hr, rest_hr)

get_athlete_state_response(acts, t, u) ==
    LET recent == Last42Days(acts, t) IN
    IF recent = {} THEN [ status |-> 404, endpoint |-> "state" ]
    ELSE IF StateRaises(recent, MaxHr(u), RestHr(u)) THEN [ status |-> 500, endpoint |-> "state" ]
    ELSE [ status |-> 200,
           endpoint |-> "state",
           activities_analyzed |-> Cardinality(recent),
           state |-> calculate_athlete_state(recent, t, MaxHr(u), RestHr(u)) ]

get_training_decision_response(acts, t, u) ==
    LET recent == Last42Days(acts, t) IN
    IF recent = {} THEN [ status |-> 404, endpoint |-> "decision" ]
    ELSE IF StateRaises(recent, MaxHr(u), RestHr(u)) THEN [ status |-> 500, endpoint |-> "decision" ]
    ELSE LET state == calculate_athlete_state(recent, t, MaxHr(u), RestHr(u)) IN
         [ status |-> 200,
           endpoint |-> "decision",
           state |-> state,
           decision |-> generate_decision(state),
           \* not in the answer: what the cascade compared the state against
           thresholds |-> RouterThresholds ]

(***************************************************************************)
(* compliance_engine.py                                                    *)
(***************************************************************************)
None == 0 - 1      \* a duration that is None where the code tests "is None"

\* karvonen_zone with a boundary value left in the lower zone
karvonen_zone_boundary_low(avg_hr, max_hr, rest_hr) ==
    IF avg_hr <= 0 \/ max_hr <= rest_hr THEN 0
    ELSE LET hrr == max_hr - rest_hr
             num == (avg_hr - rest_hr) * 100
         IN  IF num <= 60 * hrr THEN 1
             ELSE IF num <= 70 * hrr THEN 2
             ELSE IF num <= 80 * hrr THEN 3
             ELSE IF num <= 90 * hrr THEN 4
             ELSE 5

\* karvonen_zone(avg_hr, max_hr, rest_hr): pct = (avg_hr - rest_hr) / hrr
karvonen_zone(avg_hr, max_hr, rest_hr) ==
    IF avg_hr <= 0 \/ max_hr <= rest_hr THEN 0
    ELSE LET hrr == max_hr - rest_hr
             num == (avg_hr - rest_hr) * 100
         IN  IF num < 50 * hrr THEN 1
             ELSE IF num < 60 * hrr THEN 1
             ELSE IF num < 70 * hrr THEN 2
             ELSE IF num < 80 * hrr THEN 3
             ELSE IF num < 90 * hrr THEN 4
             ELSE 5

ZoneLabel(zone) ==
    CASE zone = 1 -> "Z1" [] zone = 2 -> "Z2" [] zone = 3 -> "Z3"
      [] zone = 4 -> "Z4" [] zone = 5 -> "Z5" [] OTHER -> "Z?"

\* str.lower() on the action names a caller passes
lower(action) ==
    CASE action = "REST" -> "rest"
      [] action = "Increase" -> "increase"
      [] OTHER -> action

\* infer_compliance(decision_action, activity_avg_hr, activity_duration_min,
\* max_hr, rest_hr); avg_hr 0 is None or 0, duration None is None.
\* The reason is the message with its numbers left out.
infer_compliance(action, avg_hr, duration, max_hr, rest_hr) ==
    IF avg_hr = 0 \/ duration = None
    THEN IF lower(action) = "rest"
         THEN [ followed |-> TRUE, zone |-> "none",
                reason |-> "No hubo actividad - REST correcto" ]
         ELSE [ followed |-> FALSE, zone |-> "none",
                reason |-> "No hubo actividad pero se recomendo otra accion" ]
    ELSE LET zone == karvonen_zone(avg_hr, max_hr, rest_hr)
             zone_label == ZoneLabel(zone)
         IN  CASE lower(action) = "rest" ->
                    IF zone <= 1 /\ duration <= 25
                    THEN [ followed |-> TRUE, zone |-> zone_label,
                           reason |-> "Actividad muy suave - REST respetado" ]
                    ELSE [ followed |-> FALSE, zone |-> zone_label,
                           reason |-> "Entreno cuando se recomendo REST" ]
               [] lower(action) = "reduce" ->
                    IF zone <= 2
                    THEN [ followed |-> TRUE, zone |-> zone_label,
                           reason |-> "Intensidad correcta - REDUCE seguido" ]
                    ELSE [ followed |-> FALSE, zone |-> zone_label,
                           reason |-> "Entreno cuando se recomendo REDUCE (objetivo: Z1-Z2)" ]
               [] lower(action) = "maintain" ->
                    IF 1 <= zone /\ zone <= 3
                    THEN [ followed |-> TRUE, zone |-> zone_label,
                           reason |-> "Intensidad adecuada - MAINTAIN seguido" ]
                    ELSE [ followed |-> FALSE, zone |-> zone_label,
                           reason |-> "Exceso respecto a MAINTAIN (objetivo: Z2-Z3)" ]
               [] lower(action) = "increase" ->
                    IF zone >= 3
                    THEN [ followed |-> TRUE, zone |-> zone_label,
                           reason |-> "Buena intensidad - INCREASE seguido" ]
                    ELSE [ followed |-> FALSE, zone |-> zone_label,
                           reason |-> "Intensidad baja cuando se recomendo INCREASE (objetivo: Z3+)" ]
               [] OTHER ->
                    [ followed |-> TRUE, zone |-> zone_label,
                      reason |-> "Actividad registrada" ]

\* all_activities: the rows with start_date >= today - 42 days
AllActivities(acts, today) == { a \in acts : a.start_date >= today - 42 * TicksPerDay }

\* day_activities: day_start <= start_date < day_end
DayActivities(all, day_start, day_end) ==
    { a \in all : day_start <= a.start_date /\ a.start_date < day_end }

ActivitiesUntilDay_inclusive(all, day_end) == { a \in all : a.start_date <= day_end }

\* activities_until_day: start_date < day_end
ActivitiesUntilDay(all, day_end) == { a \in all : a.start_date < day_end }

\* max(day_activities, key=lambda a: a.duration_min or 0) over the rows in
\* start_date order: the first row of the greatest duration
MainActivity(day) ==
    CHOOSE a \in day :
        \A b \in day :
            \/ b.duration_min < a.duration_min
            \/ b.duration_min = a.duration_min /\ b.start_date > a.start_date
            \/ b.duration_min = a.duration_min /\ b.start_date = a.start_date /\ b.id >= a.id

\* the lookup without its auto_inferred condition
ExistingAuto_any_row(store, day_start, day_end) ==
    { i \in 1 .. Len(store) :
        /\ store[i].date >= day_start
        /\ store[i].date < day_end }

\* the indices of the auto-inferred rows dated inside [day_start, day_end)
ExistingAuto(store, day_start, day_end) ==
    { i \in 1 .. Len(store) :
        /\ store[i].auto_inferred
        /\ store[i].date >= day_start
        /\ store[i].date < day_end }

Upsert_always_insert(store, row, day_start, day_end) == Append(store, row)

\* lines 170-213: the existing auto-inferred row of the day is overwritten
\* (its date kept), otherwise the new row is added
Upsert(store, row, day_start, day_end) ==
    LET found == ExistingAuto(store, day_start, day_end) IN
    IF found = {} THEN Append(store, row)
    ELSE LET i == CHOOSE x \in found : TRUE
         IN  [ store EXCEPT ![i] = [ row EXCEPT !.date = store[i].date ] ]

\* scalar_one_or_none() raises MultipleResultsFound on two matching rows
UpsertRaises(store, day_start, day_end) ==
    Cardinality(ExistingAuto(store, day_start, day_end)) > 1

(***************************************************************************)
(* decision_engine.py: DecisionEngine with rest_hr 60 and max_hr 190.      *)
(* Thresholds are in millionths; a text that is None is "".  The headline  *)
(* and the reasoning are given without the numbers they quote.             *)
(***************************************************************************)
NoText == ""
NoRange == << >>

\* _hr_zone(zone): int(rest_hr + hr_reserve * pct) for the two ends
_hr_zone(zone) ==
    LET low_pct == CASE zone = 2 -> 60 [] zone = 3 -> 70 [] zone = 4 -> 80
                     [] zone = 5 -> 90 [] OTHER -> 50
        high_pct == CASE zone = 2 -> 70 [] zone = 3 -> 80 [] zone = 4 -> 90
                      [] zone = 5 -> 100 [] OTHER -> 60
    IN  << (60 * 100 + (190 - 60) * low_pct) \div 100,
           (60 * 100 + (190 - 60) * high_pct) \div 100 >>

WorkoutSuggestion(title, duration_min, intensity_zone, intensity_label, hr_range, examples) ==
    [ title |-> title, duration_min |-> duration_min, intensity_zone |-> intensity_zone,
      intensity_label |-> intensity_label, hr_range |-> hr_range, examples |-> examples ]

Decision(action, confidence, headline, risk_note, primary, alternative, nutrition_tip, recovery_tip) ==
    [ action |-> action, confidence |-> confidence, headline |-> headline,
      risk_note |-> risk_note, primary_workout |-> primary,
      alternative_workout |-> alternative,
      nutrition_tip |-> nutrition_tip, recovery_tip |-> recovery_tip ]

_high_load_day_without_note(state, pe) ==
    Decision("active_recovery", 85,
        "Tu carga reciente es alta - hoy es dia de moverte con inteligencia",
        NoText,
        WorkoutSuggestion("Trote regenerativo", 30, "Z1", "Recuperacion", _hr_zone(1),
            << "30 min trote muy suave por terreno plano",
               "Si las piernas estan pesadas, camina los primeros 5 min",
               "Puedes alternar 3 min trote / 1 min caminata",
               "Termina con 5 min de estiramientos suaves" >>),
        WorkoutSuggestion("Movilidad + Core", 40, "Z1", "Recuperacion", NoRange,
            << "15 min movilidad articular (caderas, tobillos, hombros)",
               "15 min core: planks, dead bugs, bird dogs",
               "10 min foam roller en cuadriceps, gemelos, IT band",
               "Yoga suave si prefieres algo mas fluido" >>),
        "Hoy prioriza proteina y carbohidratos de calidad.",
        "Si puedes, duerme 30 min extra esta noche.")

_high_load_day(state, pe) ==
    Decision("active_recovery", 85,
        "Tu carga reciente es alta - hoy es dia de moverte con inteligencia",
        "Tu ratio de carga esta elevado. Si sientes dolor articular o muscular inusual, considera reducir aun mas.",
        WorkoutSuggestion("Trote regenerativo", 30, "Z1", "Recuperacion", _hr_zone(1),
            << "30 min trote muy suave por terreno plano",
               "Si las piernas estan pesadas, camina los primeros 5 min",
               "Puedes alternar 3 min trote / 1 min caminata",
               "Termina con 5 min de estiramientos suaves" >>),
        WorkoutSuggestion("Movilidad + Core", 40, "Z1", "Recuperacion", NoRange,
            << "15 min movilidad articular (caderas, tobillos, hombros)",
               "15 min core: planks, dead bugs, bird dogs",
               "10 min foam roller en cuadriceps, gemelos, IT band",
               "Yoga suave si prefieres algo mas fluido" >>),
        "Hoy prioriza proteina y carbohidratos de calidad.",
        "Si puedes, duerme 30 min extra esta noche.")

_elevated_load_day(state, pe) ==
    Decision("easy", 80,
        "Carga acumulada considerable - sesion aerobica base hoy",
        NoText,
        WorkoutSuggestion("Carrera base aerobica", 40, "Z2", "Base aerobica", _hr_zone(2),
            << "40 min de carrera continua en zona 2",
               "Ritmo conversacional - si no puedes hablar, baja",
               "Terreno plano o ligeramente ondulado",
               "Enfocate en cadencia: 170-180 pasos/min" >>),
        WorkoutSuggestion("Cross-training suave", 45, "Z2", "Base aerobica", _hr_zone(2),
            << "45 min de bicicleta estatica a ritmo suave",
               "30 min de natacion tecnica",
               "40 min de eliptica a intensidad moderada" >>),
        "Hidratate bien antes de la sesion.",
        "Estiramientos de 10 min post-sesion.")

_fatigued_day(state, pe) ==
    Decision("easy", 75,
        "Fatiga acumulada detectada - sesion tecnica de baja intensidad",
        NoText,
        WorkoutSuggestion("Carrera tecnica", 35, "Z1-Z2", "Tecnica", _hr_zone(1),
            << "10 min calentamiento trote suave",
               "4x 30s drills de tecnica (skipping, talones, rodillas altas)",
               "15 min trote suave enfocado en postura y cadencia",
               "5 min caminata + estiramientos" >>),
        WorkoutSuggestion("Fuerza preventiva", 30, "Z1", "Fuerza ligera", NoRange,
            << "Sentadillas a una pierna (3x10 cada lado)",
               "Puente de gluteos (3x15)",
               "Calf raises excentricos (3x12)",
               "Plancha lateral (3x30s cada lado)" >>),
        "Incluye alimentos antiinflamatorios: frutas, verduras de hoja verde.",
        "Si tienes acceso, un bano de contraste.")

_fresh_day(state, pe) ==
    Decision("quality", 85,
        "Estas fresco y con buena base - dia ideal para sesion de calidad",
        NoText,
        WorkoutSuggestion("Intervalos de umbral", 50, "Z4", "Umbral", _hr_zone(4),
            << "15 min calentamiento progresivo (Z1 -> Z2)",
               "5x 4 min en zona 4 con 2 min trote recuperacion",
               "Si te sientes fuerte, los ultimos 2 intervalos puedes subir a Z4 alto",
               "10 min vuelta a la calma en Z1" >>),
        WorkoutSuggestion("Tempo sostenido", 50, "Z3", "Tempo", _hr_zone(3),
            << "10 min calentamiento en Z1-Z2",
               "25-30 min continuos en zona 3 (ritmo 'comodamente dificil')",
               "Deberias poder decir frases cortas pero no mantener conversacion",
               "10 min vuelta a la calma" >>),
        "Come carbohidratos 2-3 horas antes de la sesion.",
        "Despues de la sesion de calidad, los proximos 1-2 dias deberian ser suaves.")

_comeback_day(state, pe) ==
    Decision("moderate", 70,
        "Llevas dias sin actividad - retoma con progresion",
        "Despues de una pausa, el riesgo de molestias es mayor si arrancas muy fuerte.",
        WorkoutSuggestion("Retorno progresivo", 40, "Z1->Z2", "Progresivo", _hr_zone(2),
            << "10 min caminata rapida o trote muy suave",
               "15 min trote en zona 2 baja",
               "10 min trote en zona 2 alta (si las piernas responden bien)",
               "5 min vuelta a la calma + estiramientos",
               "Si algo molesta, reduce y no fuerces" >>),
        WorkoutSuggestion("Activacion general", 35, "Z1-Z2", "Activacion", NoRange,
            << "10 min movilidad articular dinamica",
               "10 min ejercicios de activacion (sentadillas, lunges, skipping)",
               "10 min trote suave o caminata rapida",
               "5 min estiramientos" >>),
        "Hidratate bien antes de volver a entrenar.",
        "No intentes recuperar los dias perdidos de golpe.")

_normal_day(state, pe) ==
    Decision("moderate", 75,
        "Estado equilibrado - sesion aerobica solida hoy",
        NoText,
        WorkoutSuggestion("Carrera base con fartlek opcional", 45, "Z2", "Base aerobica", _hr_zone(2),
            << "45 min de carrera en zona 2",
               "Si te sientes bien despues de 20 min: incluye 4-6 aceleraciones de 30s",
               "Las aceleraciones son a ritmo alegre, no sprint maximo",
               "Termina siempre con 5-10 min suaves" >>),
        WorkoutSuggestion("Carrera larga suave", 60, "Z1-Z2", "Resistencia", _hr_zone(2),
            << "60 min de trote continuo a ritmo conversacional",
               "Lleva agua si hace calor",
               "No te preocupes por el pace - enfocate en el tiempo en pies",
               "Es normal que el ultimo tercio se sienta mas pesado" >>),
        "Sesion aerobica moderada: puedes entrenar en ayunas si es corta (<45 min).",
        "Despues de la sesion, 10 min de estiramientos marcan la diferencia.")

_insufficient_data(state) ==
    Decision("moderate", 30,
        "Aun estoy aprendiendo tu patron - entrena como lo sientes hoy",
        NoText,
        WorkoutSuggestion("Tu sesion planificada", 45, "Segun tu plan", "Tu eleccion", NoRange,
            << "Sigue tu plan de entrenamiento habitual",
               "Asegurate de sincronizar la actividad despues",
               "En unos dias podre darte sesiones especificas" >>),
        WorkoutSuggestion("Carrera base", 40, "Z2", "Base", NoRange,
            << "40 min trote a ritmo conversacional",
               "Sin presion de pace - solo disfruta la sesion" >>),
        NoText,
        "Recuerda sincronizar tu actividad despues de cada sesion.")

\* th.get(key, default) on "thresholds or {}": thresholds is a record, a
\* record without fields ([x \in {} |-> 0]) is an empty dict or None
ThGet(th, key, default) == IF key \in DOMAIN th THEN th[key] ELSE default

DecisionEngine_load_before_data(state, pe, thresholds) ==
    LET acwr_danger == ThGet(thresholds, "acwr_danger", 1500000)
        acwr_caution == ThGet(thresholds, "acwr_caution", 1300000)
        tsb_fatigued == ThGet(thresholds, "tsb_fatigued", 0 - 15000000)
        tsb_fresh == ThGet(thresholds, "tsb_fresh", 10000000)
    IN  IF state.acwr * 10000 > acwr_danger \/ state.injury_risk = "high"
        THEN _high_load_day(state, pe)
        ELSE IF state.activities_count < 3
        THEN _insufficient_data(state)
        ELSE IF state.acwr * 10000 > acwr_caution \/ state.injury_risk = "moderate"
        THEN _elevated_load_day(state, pe)
        ELSE IF state.training_stress_balance * 100000 < tsb_fatigued
        THEN _fatigued_day(state, pe)
        ELSE IF state.training_stress_balance * 100000 > tsb_fresh /\ state.chronic_load > 50
        THEN _fresh_day(state, pe)
        ELSE IF state.days_since_last >= 3
        THEN _comeback_day(state, pe)
        ELSE _normal_day(state, pe)

\* DecisionEngine.generate_decision(state, perceived_effort, thresholds)
DecisionEngine_generate_decision(state, pe, thresholds) ==
    LET acwr_danger == ThGet(thresholds, "acwr_danger", 1500000)
        acwr_caution == ThGet(thresholds, "acwr_caution", 1300000)
        tsb_fatigued == ThGet(thresholds, "tsb_fatigued", 0 - 15000000)
        tsb_fresh == ThGet(thresholds, "tsb_fresh", 10000000)
    IN  IF state.activities_count < 3
        THEN _insufficient_data(state)
        ELSE IF state.acwr * 10000 > acwr_danger \/ state.injury_risk = "high"
        THEN _high_load_day(state, pe)
        ELSE IF state.acwr * 10000 > acwr_caution \/ state.injury_risk = "moderate"
        THEN _elevated_load_day(state, pe)
        ELSE IF state.training_stress_balance * 100000 < tsb_fatigued
        THEN _fatigued_day(state, pe)
        ELSE IF state.training_stress_balance * 100000 > tsb_fresh /\ state.chronic_load > 50
        THEN _fresh_day(state, pe)
        ELSE IF state.days_since_last >= 3
        THEN _comeback_day(state, pe)
        ELSE _normal_day(state, pe)

(***************************************************************************)
(* athlete_state.py: AthleteStateCalculator.  Loads are in tenths, as      *)
(* round(load, 1) leaves them; the weights of the decay are in thousandths;*)
(* avg_pace is in cm/s; a readiness score is in units of 1/840000 until it *)
(* is rounded to tenths.                                                   *)
(***************************************************************************)
\* ActivityData; start_date and id are what the rows of routers/decision.py carry
ActivityData(id, date, activity_type, duration_min, distance_km, elevation_m, avg_hr, avg_pace) ==
    [ id |-> id, date |-> date, start_date |-> date, activity_type |-> activity_type,
      duration_min |-> duration_min, distance_km |-> distance_km,
      elevation_m |-> elevation_m, avg_hr |-> avg_hr, avg_pace |-> avg_pace ]

\* 1000000 * (p/100) * 0.64 * math.exp(1.92 * p/100) for p = 1 .. 100
CalcTrimpPerMinute == <<
    6524, 13301, 20338, 27644, 35224, 43089, 51244, 59700,
    68465, 77547, 86955, 96699, 106788, 117232, 128041, 139224,
    150793, 162759, 175131, 187923, 201144, 214807, 228924, 243508,
    258572, 274128, 290190, 306771, 323887, 341550, 359777, 378582,
    397982, 417990, 438626, 459904, 481842, 504458, 527770, 551795,
    576555, 602066, 628350, 655427, 683318, 712044, 741626, 772088,
    803453, 835743, 868983, 903198, 938413, 974654, 1011947, 1050319,
    1089800, 1130416, 1172197, 1215174, 1259376, 1304836, 1351584, 1399655,
    1449082, 1499899, 1552141, 1605846, 1661049, 1717789, 1776105, 1836036,
    1897623, 1960908, 2025934, 2092744, 2161383, 2231896, 2304331, 2378736,
    2455160, 2533653, 2614266, 2697053, 2782066, 2869363, 2958998, 3051031,
    3145520, 3242525, 3342110, 3444337, 3549271, 3656979, 3767530, 3880992,
    3997438, 4116940, 4239573, 4365413 >>

\* 1000 * math.exp(-i / 7) for i = 0 .. 6
CalcDecay7 == <<
    1000, 867, 751, 651, 565, 490, 424 >>

\* 1000 * math.exp(-i / 42) for i = 0 .. 41
CalcDecay42 == <<
    1000, 976, 953, 931, 909, 888, 867, 846, 827, 807,
    788, 770, 751, 734, 717, 700, 683, 667, 651, 636,
    621, 607, 592, 578, 565, 551, 538, 526, 513, 501,
    490, 478, 467, 456, 445, 435, 424, 414, 405, 395,
    386, 377 >>

\* _trimp_with_hr raises ZeroDivisionError
_trimp_with_hr_raises(activity, max_hr, rest_hr) == max_hr = rest_hr

\* _trimp_with_hr; hr_reserve is taken to the nearest hundredth
_trimp_with_hr(activity, max_hr, rest_hr) ==
    LET ratio == RoundDiv((activity.avg_hr - rest_hr) * 100, max_hr - rest_hr)
        hr_reserve == Max(0, Min(100, ratio))
    IN  IF hr_reserve = 0 THEN 0
        ELSE RoundDiv(activity.duration_min * CalcTrimpPerMinute[hr_reserve], 100000)

\* the intensity of _estimated_load, in hundredths: pace_min_km = 1000 / (avg_pace * 60)
PaceIntensity(activity) ==
    IF activity.avg_pace > 0 /\ activity.distance_km > 0
    THEN IF 1000 * 100 * 10 < 45 * 60 * activity.avg_pace THEN 90
         ELSE IF 1000 * 100 * 10 < 55 * 60 * activity.avg_pace THEN 75
         ELSE IF 1000 * 100 * 10 < 70 * 60 * activity.avg_pace THEN 60
         ELSE 45
    ELSE 60

\* type_factor, in tenths
TypeFactor(activity_type) ==
    CASE activity_type = "Run" -> 10
      [] activity_type = "WeightTraining" -> 7
      [] activity_type = "Ride" -> 8
      [] activity_type = "Swim" -> 9
      [] activity_type = "Walk" -> 4
      [] activity_type = "Hike" -> 6
      [] OTHER -> 6

\* elev_factor, in hundredths: the second test is behind the first
ElevFactor(elevation_m) ==
    IF elevation_m > 100 THEN 115
    ELSE IF elevation_m > 300 THEN 130
    ELSE 100

_estimated_load(activity) ==
    RoundDiv(activity.duration_min * PaceIntensity(activity)
                * TypeFactor(activity.activity_type) * ElevFactor(activity.elevation_m),
             10000)

calculate_training_load(activity, max_hr, rest_hr) ==
    IF activity.avg_hr > 0
    THEN _trimp_with_hr(activity, max_hr, rest_hr)
    ELSE _estimated_load(activity)

\* daily_loads[date_key], 0 for a day without activity
RECURSIVE SumLoads(_, _, _)
SumLoads(S, max_hr, rest_hr) ==
    IF S = {} THEN 0
    ELSE LET a == CHOOSE x \in S : TRUE
         IN  calculate_training_load(a, max_hr, rest_hr) + SumLoads(S \ {a}, max_hr, rest_hr)

DailyLoad(acts, day, max_hr, rest_hr) ==
    SumLoads({ a \in acts : Midnight(a.date) = day }, max_hr, rest_hr)

\* the total of _exponential_load before "total / decay_days"
RECURSIVE ExponentialTotal(_, _, _, _, _, _)
ExponentialTotal(acts, t, w, i, max_hr, rest_hr) ==
    IF i = 0 THEN 0
    ELSE DailyLoad(acts, Midnight(t) - (i - 1) * TicksPerDay, max_hr, rest_hr) * w[i]
           + ExponentialTotal(acts, t, w, i - 1, max_hr, rest_hr)

Acwr_neutral_without_chronic(atl_total, ctl_total) ==
    IF ctl_total > 0
    THEN IF atl_total <= 1500000
         THEN RoundDiv(atl_total * 600, ctl_total)
         ELSE RoundDiv((atl_total \div 8) * 600, ctl_total \div 8)
    ELSE 100

\* round(atl / ctl, 2) if ctl > 0 else 0, with atl = atl_total / 7 and
\* ctl = ctl_total / 42; in hundredths.  The second form keeps 32 bits.
Acwr(atl_total, ctl_total) ==
    IF ctl_total > 0
    THEN IF atl_total <= 1500000
         THEN RoundDiv(atl_total * 600, ctl_total)
         ELSE RoundDiv((atl_total \div 8) * 600, ctl_total \div 8)
    ELSE 0

_assess_injury_risk(acwr) ==
    IF acwr < 80 THEN "low"
    ELSE IF acwr <= 130 THEN "low"
    ELSE IF acwr <= 150 THEN "moderate"
    ELSE "high"

ScoreUnit == 84 * 10000       \* one readiness point

TsbTerm_without_floor(tsb42) ==
    IF tsb42 > 0 THEN Min(25 * ScoreUnit, 4 * tsb42) ELSE 3 * tsb42

\* lines 216-220; tsb42 is 42 * tsb in ten-thousandths: tsb * 2 is
\* 4 * tsb42 score units and tsb * 1.5 is 3 * tsb42
TsbTerm(tsb42) ==
    IF tsb42 > 0
    THEN Min(25 * ScoreUnit, 4 * tsb42)
    ELSE Max((0 - 25) * ScoreUnit, 3 * tsb42)

\* lines 222-228
AcwrTerm(acwr) ==
    IF 80 <= acwr /\ acwr <= 130 THEN 15 * ScoreUnit
    ELSE IF acwr > 150 THEN (0 - 15) * ScoreUnit
    ELSE IF acwr < 50 THEN (0 - 5) * ScoreUnit
    ELSE 0

\* lines 234-239
RestTerm(days_since) ==
    IF days_since = 1 THEN 5 * ScoreUnit
    ELSE IF days_since = 2 THEN 10 * ScoreUnit
    ELSE IF days_since >= 4 THEN (0 - 5) * ScoreUnit
    ELSE 0

\* _calculate_readiness, days_since being (now - last date).days
_calculate_readiness(tsb42, acwr, days_since) ==
    LET score == 50 * ScoreUnit + TsbTerm(tsb42) + AcwrTerm(acwr) + RestTerm(days_since)
    IN  Max(0, Min(100 * ScoreUnit, score))

\* sorted(activities, key=date, reverse=True)[0].date
LastDate(acts) == CHOOSE d \in { a.date : a \in acts } : \A a \in acts : a.date <= d

\* timedelta.days
DaysBetween(t, d) == (t - d) \div TicksPerDay

\* AthleteStateCalculator(max_hr, rest_hr).calculate_state(activities) at the moment t
calculate_state(acts, t, max_hr, rest_hr) ==
    IF acts = {}
    THEN [ acute_load |-> 0, chronic_load |-> 0, training_stress_balance |-> 0,
           acwr |-> 0, injury_risk |-> "low", readiness_score |-> 1000,
           days_analyzed |-> 0, activities_count |-> 0,
           last_activity_date |-> None, days_since_last |-> 999 ]
    ELSE LET atl_total == ExponentialTotal(acts, t, CalcDecay7, 7, max_hr, rest_hr)
             ctl_total == ExponentialTotal(acts, t, CalcDecay42, 42, max_hr, rest_hr)
             tsb42 == ctl_total - 6 * atl_total
             acwr == Acwr(atl_total, ctl_total)
             days_since == DaysBetween(t, LastDate(acts))
             readiness == _calculate_readiness(tsb42, acwr, days_since)
         IN  [ acute_load |-> RoundDiv(atl_total, 7 * 1000),
               chronic_load |-> RoundDiv(ctl_total, 42 * 1000),
               training_stress_balance |-> RoundDiv(tsb42, 42 * 1000),
               acwr |-> acwr,
               injury_risk |-> _assess_injury_risk(acwr),
               readiness_score |-> RoundDiv(readiness * 10, ScoreUnit),
               days_analyzed |-> 42,
               activities_count |-> Cardinality(acts),
               last_activity_date |-> LastDate(acts),
               days_since_last |-> days_since ]

\* calculate_state raises: a heart-rate activity with max_hr = rest_hr
calculate_state_raises(acts, max_hr, rest_hr) ==
    \E a \in acts : a.avg_hr > 0 /\ _trimp_with_hr_raises(a, max_hr, rest_hr)

(***************************************************************************)
(* The service: the feedback, learning and decision endpoints of one user. *)
(***************************************************************************)
\* run_compliance_inference has not been called yet
IdleBackfill ==
    [ pc |-> "idle", today |-> 0, days_back |-> 0, days_ago |-> 0,
      inferred |-> 0, errors |-> 0, runs |-> 0, repeated |-> FALSE,
      visited |-> << >> ]
IdleEngine == [ phase |-> "idle" ]
IdleCalc == [ phase |-> "idle" ]
IdleCompliance == [ phase |-> "idle" ]
IdlePhase == [ pc |-> "idle" ]

\* what a client may send
FeedbackActions == { "rest", "easy", "increase", "moderate", "maintain" }
ConfigSpeeds == { "conservative", "moderate", "fast", "custom", "turbo" }
ConfigCustom == { 0, 1, 51 }      \* 0: custom_min_signals left out

\* the activities the service finds stored
OldRun == Act(1, Epoch - 21, 60, 160)
RecentRun == Act(2, Epoch - 6, 45, 150)
WalkNoHr == Act(3, Epoch - 2, 30, 0)
ServiceActivitySets == { {}, {OldRun}, {RecentRun, WalkNoHr} }

\* the indices of the rows POST /feedback/ stored
ManualRows(store) == { i \in 1 .. Len(store) : ~store[i].auto_inferred }

\* the state before the first request
Fresh(acts, u, t) ==
    /\ adj = NoRow
    /\ feedback = << >>
    /\ activities = acts
    /\ user = u
    /\ now = t
    /\ response = NoResponse
    /\ bf = IdleBackfill
    /\ ci = IdleCompliance
    /\ dp = IdlePhase
    /\ de = IdleEngine
    /\ calc = IdleCalc

\* POST /feedback/
save_feedback(action, followed) ==
    /\ Cardinality(ManualRows(feedback)) < MaxFeedback
    /\ feedback' = Append(feedback,
                     FeedbackRow(now, action, followed, FALSE, NoMetrics, 0, 0, "", "", {}))
    /\ adj' = AfterAnalysis(adj, feedback')
    /\ response' = [ status |-> 200, endpoint |-> "feedback" ]
    /\ UNCHANGED <<activities, user, now, bf, de, calc, ci, dp>>

\* POST /learning/trigger
trigger_learning ==
    /\ adj' = AfterAnalysis(adj, feedback)
    /\ response' = [ status |-> 200, endpoint |-> "trigger" ]
    /\ UNCHANGED <<feedback, activities, user, now, bf, de, calc, ci, dp>>

\* GET /learning/status: creates the row and commits
learning_status ==
    /\ adj' = get_or_create_thresholds(adj)
    /\ response' = [ status |-> 200, endpoint |-> "status" ]
    /\ UNCHANGED <<feedback, activities, user, now, bf, de, calc, ci, dp>>

\* the validation without its check of custom_min_signals
ConfigRejected_speed_only(speed, custom) ==
    speed \notin { "conservative", "moderate", "fast", "custom" }

\* the 400 answers of PUT /learning/config
ConfigRejected(speed, custom) ==
    \/ speed \notin { "conservative", "moderate", "fast", "custom" }
    \/ speed = "custom" /\ (custom = 0 \/ ~(1 <= custom /\ custom <= 50))

\* PUT /learning/config
update_config(speed, custom) ==
    /\ adj' = IF ConfigRejected(speed, custom) THEN adj
              ELSE [ get_or_create_thresholds(adj) EXCEPT
                       !.learning_speed = speed,
                       !.custom_min_signals = IF custom # 0 THEN custom ELSE @ ]
    \* the message of the 200 answer names the speed and, for "custom", the
    \* custom_min_signals of the request
    /\ response' = IF ConfigRejected(speed, custom)
                   THEN [ status |-> 400, endpoint |-> "config" ]
                   ELSE [ status |-> 200, endpoint |-> "config",
                          message |-> << speed,
                                         IF speed = "custom" THEN custom ELSE 0 >> ]
    /\ UNCHANGED <<feedback, activities, user, now, bf, de, calc, ci, dp>>

\* a reset that replaces the row by a new one
reset_learning_new_row ==
    /\ adj' = NewAdjustment
    /\ response' = [ status |-> 200, endpoint |-> "reset" ]
    /\ UNCHANGED <<feedback, activities, user, now, bf, de, calc, ci, dp>>

\* POST /learning/reset
reset_learning ==
    /\ adj' = [ get_or_create_thresholds(adj) EXCEPT
                  !.tsb_rest_multiplier = 1000,
                  !.tsb_reduce_multiplier = 1000,
                  !.acwr_danger_multiplier = 1000,
                  !.acwr_caution_multiplier = 1000,
                  !.readiness_low_multiplier = 1000,
                  !.rest_followed = 0,
                  !.rest_ignored = 0,
                  !.rest_good_ignore = 0,
                  !.rest_bad_ignore = 0,
                  !.reduce_followed = 0,
                  !.reduce_ignored = 0,
                  !.increase_followed = 0,
                  !.increase_ignored = 0,
                  !.total_analyzed = 0 ]
    /\ response' = [ status |-> 200, endpoint |-> "reset" ]
    /\ UNCHANGED <<feedback, activities, user, now, bf, de, calc, ci, dp>>

\* GET /morphy/state
get_athlete_state ==
    /\ response' = get_athlete_state_response(activities, now, user)
    /\ UNCHANGED <<adj, feedback, activities, user, now, bf, de, calc, ci, dp>>

\* GET /morphy/decision
get_training_decision ==
    /\ response' = get_training_decision_response(activities, now, user)
    /\ UNCHANGED <<adj, feedback, activities, user, now, bf, de, calc, ci, dp>>

(***************************************************************************)
(* SpecLearn: the learner's endpoints, any feedback history.               *)
(***************************************************************************)
LearnInit == Fresh({}, DefaultUser, Epoch + 1)

LearnNext ==
    \/ \E action \in FeedbackActions, followed \in BOOLEAN : save_feedback(action, followed)
    \/ trigger_learning
    \/ learning_status
    \/ \E speed \in ConfigSpeeds, custom \in ConfigCustom : update_config(speed, custom)
    \/ reset_learning

SpecLearn == LearnInit /\ [][LearnNext]_vars

(***************************************************************************)
(* analyze_and_update run, and run again, on a stored profile and history  *)
(***************************************************************************)
\* n rows of one action and one answer, dated first, first + 1, ...
Rows(action, followed, n, first) ==
    [ k \in 1 .. n |->
        FeedbackRow(first + k - 1, action, followed, FALSE, NoMetrics, 0, 0, "", "", {}) ]

\* the store made of the segments <<action, followed, n>>, oldest first
RECURSIVE StoreOf(_, _)
StoreOf(segs, first) ==
    IF segs = << >> THEN << >>
    ELSE Rows(segs[1][1], segs[1][2], segs[1][3], first)
            \o StoreOf(Tail(segs), first + segs[1][3])

\* followed and ignored answers of one category: none, few, around the ignore
\* rates 0.2, 0.6 and 0.65, around min_signals and twice min_signals
AnalyzeCounts ==
    { <<0, 0>>, <<0, 2>>, <<2, 3>>, <<1, 5>>, <<5, 1>>, <<8, 2>>, <<9, 1>>,
      <<7, 13>>, <<19, 1>> }

\* records outside the two adjusted categories
AnalyzeExtras ==
    { << >>,
      << <<"maintain", FALSE, 4>> >>,
      << <<"moderate", FALSE, 6>> >>,
      << <<"increase", TRUE, 3>>, <<"hard", FALSE, 2>> >>,
      << <<"increase", FALSE, 6>> >> }

\* a history of more than 100 records: the oldest, an ignored rest, is
\* outside the window of the query
LongHistory ==
    StoreOf(<< <<"rest", FALSE, 1>>, <<"reduce", TRUE, 60>>,
               <<"maintain", TRUE, 5>>, <<"reduce", FALSE, 40>> >>, 1)

AnalyzeStores ==
    { StoreOf(<< <<"rest", TRUE, r[1]>>, <<"rest", FALSE, r[2]>>,
                 <<"reduce", TRUE, e[1]>>, <<"reduce", FALSE, e[2]>> >> \o x, 1) :
        r \in AnalyzeCounts, e \in AnalyzeCounts, x \in AnalyzeExtras }
    \cup { LongHistory }

\* the multipliers the learner can have left: 1.0 and values next to a bound
AnalyzeMultipliers ==
    { [ danger |-> 1000, caution |-> 1000, tsb_rest |-> 1000 ],
      [ danger |-> 1285, caution |-> 715, tsb_rest |-> 1285 ],
      [ danger |-> 715, caution |-> 1270, tsb_rest |-> 1000 ] }

\* the ignored rest records an earlier run has counted
AnalyzeCounters == { 0, 1 }

AnalyzeRows ==
    { [ NewAdjustment EXCEPT
          !.learning_speed = speed,
          !.custom_min_signals = IF speed = "custom" THEN 1 ELSE @,
          !.acwr_danger_multiplier = m.danger,
          !.acwr_caution_multiplier = m.caution,
          !.tsb_rest_multiplier = m.tsb_rest,
          !.rest_ignored = c,
          !.total_analyzed = c ] :
        speed \in { "conservative", "moderate", "fast", "custom" },
        m \in AnalyzeMultipliers, c \in AnalyzeCounters }

\* an ignored rest record is somewhere in the history when an earlier run has
\* counted one; without history the profile is as created
AnalyzeInit ==
    /\ adj \in AnalyzeRows
    /\ feedback \in AnalyzeStores
    /\ adj.rest_ignored <= Cardinality({ i \in 1 .. Len(feedback) :
                                          /\ feedback[i].action = "rest"
                                          /\ ~feedback[i].followed })
    /\ feedback = << >> =>
          /\ adj.acwr_danger_multiplier = 1000
          /\ adj.acwr_caution_multiplier = 1000
          /\ adj.tsb_rest_multiplier = 1000
    /\ activities = {}
    /\ user = DefaultUser
    /\ now = Epoch
    /\ response = NoResponse
    /\ bf = IdleBackfill
    /\ de = IdleEngine
    /\ calc = IdleCalc
    /\ ci = IdleCompliance
    /\ dp = IdlePhase

AnalyzeNext == trigger_learning

SpecAnalyze == AnalyzeInit /\ [][AnalyzeNext]_vars

\* the runs of the analysis keep coming: one after every feedback saved and
\* one for every POST /learning/trigger
SpecAnalyzeRepeated == SpecAnalyze /\ WF_vars(trigger_learning)

(***************************************************************************)
(* Spec: the feedback loop of the service: feedback, learner, decision.    *)
(***************************************************************************)
LoopActions == { "rest", "easy" }

Init == \E acts \in ServiceActivitySets : Fresh(acts, ProfiledUser, Epoch + 1)

Next ==
    \/ \E action \in LoopActions, followed \in BOOLEAN : save_feedback(action, followed)
    \/ trigger_learning
    \/ \E speed \in ConfigSpeeds, custom \in ConfigCustom : update_config(speed, custom)
    \/ reset_learning
    \/ get_athlete_state
    \/ get_training_decision

Spec == Init /\ [][Next]_vars

(***************************************************************************)
(* SpecBackfill: run_compliance_inference, one day of the window per step, *)
(* called again and again while the clock advances.                        *)
(***************************************************************************)
MaxLookback == 3      \* days_back of a run is at most this
MaxRuns == 2          \* runs of the backfill
MaxClock == 2         \* ticks the clock advances past Epoch
MaxActs == 2          \* stored activities
MaxManual == 1        \* feedback rows the athlete submits around the backfill

WeekOldRun == Act(1, Epoch - 7 * TicksPerDay, 60, 160)   \* midnight, a week ago
MidnightRun == Act(2, Epoch - TicksPerDay, 40, 150)     \* midnight, yesterday
ShortJog == Act(3, Epoch - 3, 20, 100)                  \* midday, two days ago
NoHrWalk == Act(4, Epoch - 5, 50, 0)                    \* midday, three days ago
LongRide == Act(5, Epoch - 4, 55, 140)                  \* midnight, two days ago
BackfillPool == { WeekOldRun, MidnightRun, ShortJog, NoHrWalk, LongRide }
BackfillActivitySets == { S \in SUBSET BackfillPool : Cardinality(S) <= MaxActs }
BackfillUsers == { DefaultUser, ProfiledUser, FlatUser }

\* lines 113-134: now, today and the 42 days of activities
start_backfill(days_back) ==
    /\ bf.pc # "loop"
    /\ bf.runs < MaxRuns
    /\ bf' = [ pc |-> "loop", today |-> Midnight(now), days_back |-> days_back,
               days_ago |-> days_back, inferred |-> 0, errors |-> 0,
               runs |-> bf.runs + 1,
               \* for the properties: the days the loop has handled, in order
               visited |-> << >>,
               \* for the properties: the run has the window of the run before
               repeated |-> /\ bf.runs >= 1
                            /\ bf.today = Midnight(now)
                            /\ bf.days_back = days_back ]
    /\ UNCHANGED <<adj, feedback, activities, user, now, response, de, calc, ci, dp>>

\* range(days_back - 1, -1, -1) in place of range(days_back, 0, -1)
target_date_from_zero(today, n) == today - (n - 1) * TicksPerDay

\* lines 134-136: target_date = today - timedelta(days=days_ago)
target_date(today, n) == today - n * TicksPerDay

\* the row one iteration of the loop writes for the day starting at day_start
\* the row with a duration of 0 handed on as 0.0, not as None
InferredRow_zero_duration_kept(until, day, day_start, t, u) ==
    LET state == calculate_athlete_state(until, t, MaxHr(u), RestHr(u))
        decision == generate_decision(state)
        has_main == day # {}
        avg_hr == IF has_main THEN MainActivity(day).avg_hr ELSE 0
        duration == IF has_main THEN MainActivity(day).duration_min ELSE 0
        c == infer_compliance(decision.action, avg_hr,
                              IF has_main THEN duration ELSE None,
                              MaxHr(u), RestHr(u))
    IN  FeedbackRow(day_start, decision.action, c.followed, TRUE, state,
                    avg_hr, duration, c.zone, c.reason,
                    { a.id : a \in until })

InferredRow(until, day, day_start, t, u) ==
    LET state == calculate_athlete_state(until, t, MaxHr(u), RestHr(u))
        decision == generate_decision(state)
        has_main == day # {}
        avg_hr == IF has_main THEN MainActivity(day).avg_hr ELSE 0
        duration == IF has_main THEN MainActivity(day).duration_min ELSE 0
        c == infer_compliance(decision.action, avg_hr,
                              IF duration # 0 THEN duration ELSE None,
                              MaxHr(u), RestHr(u))
    IN  FeedbackRow(day_start, decision.action, c.followed, TRUE, state,
                    avg_hr, duration, c.zone, c.reason,
                    { a.id : a \in until })

\* the handler leaving the loop: "break" in place of "continue"
except_Exception_break(next) == [ next EXCEPT !.errors = @ + 1, !.days_ago = 0 ]

\* lines 218-221: "except Exception", errors += 1, continue
except_Exception(next) == [ next EXCEPT !.errors = @ + 1 ]

\* lines 136-221: one iteration of "for days_ago in range(days_back, 0, -1)"
backfill_day ==
    /\ bf.pc = "loop"
    /\ bf.days_ago >= 1
    /\ LET day_start == target_date(bf.today, bf.days_ago)
           day_end == day_start + TicksPerDay
           all == AllActivities(activities, bf.today)
           day == DayActivities(all, day_start, day_end)
           until == ActivitiesUntilDay(all, day_end)
           next == [ bf EXCEPT !.days_ago = @ - 1,
                               !.visited = Append(@, day_start) ]
       IN  IF until = {}
           THEN /\ bf' = next
                /\ feedback' = feedback
           ELSE IF \/ StateRaises(until, MaxHr(user), RestHr(user))
                   \/ UpsertRaises(feedback, day_start, day_end)
           THEN /\ bf' = except_Exception(next)
                /\ feedback' = feedback
           ELSE /\ bf' = [ next EXCEPT !.inferred = @ + 1 ]
                /\ feedback' = Upsert(feedback,
                                      InferredRow(until, day, day_start, now, user),
                                      day_start, day_end)
    /\ UNCHANGED <<adj, activities, user, now, response, de, calc, ci, dp>>

\* lines 223-230: the commit and the counts returned
finish_backfill ==
    /\ bf.pc = "loop"
    /\ bf.days_ago = 0
    /\ bf' = [ bf EXCEPT !.pc = "done" ]
    /\ UNCHANGED <<adj, feedback, activities, user, now, response, de, calc, ci, dp>>

\* time passes between two runs
advance_clock ==
    /\ bf.pc # "loop"
    /\ now < Epoch + MaxClock
    /\ now' = now + 1
    /\ UNCHANGED <<adj, feedback, activities, user, response, bf, de, calc, ci, dp>>

BackfillInit ==
    \E acts \in BackfillActivitySets, u \in BackfillUsers : Fresh(acts, u, Epoch)

BackfillNext ==
    \/ \E days_back \in 1 .. MaxLookback : start_backfill(days_back)
    \/ backfill_day
    \/ finish_backfill
    \/ advance_clock

SpecBackfill == BackfillInit /\ [][BackfillNext]_vars

\* the backfill of an athlete who also submits feedback by hand
ManualActivitySets == { {MidnightRun}, {ShortJog, LongRide}, {NoHrWalk, MidnightRun} }

ManualInit ==
    \E acts \in ManualActivitySets, u \in {DefaultUser, FlatUser} : Fresh(acts, u, Epoch)

ManualNext ==
    \/ BackfillNext
    \/ \E followed \in BOOLEAN :
          /\ Cardinality(ManualRows(feedback)) < MaxManual
          /\ save_feedback("rest", followed)

SpecManual == ManualInit /\ [][ManualNext]_vars

\* the backfill over days whose activity came without heart rate or without
\* a duration
ZeroLengthRun == Act(6, Epoch - 3, 0, 150)                \* midday, two days ago
NoDataActivitySets ==
    { {NoHrWalk}, {ZeroLengthRun}, {NoHrWalk, ZeroLengthRun}, {WeekOldRun, NoHrWalk},
      {WeekOldRun, ZeroLengthRun}, {ShortJog, ZeroLengthRun}, {MidnightRun, NoHrWalk},
      {WeekOldRun, MidnightRun, NoHrWalk, ZeroLengthRun} }

NoDataInit ==
    \E acts \in NoDataActivitySets, u \in BackfillUsers : Fresh(acts, u, Epoch)

NoDataNext == BackfillNext

SpecNoData == NoDataInit /\ [][NoDataNext]_vars

(***************************************************************************)
(* SpecEngine: DecisionEngine.generate_decision on any athlete state and   *)
(* any thresholds.  acwr in hundredths, TSB and CTL in tenths.             *)
(***************************************************************************)
EngineCounts == { 0, 2, 3 }
EngineAcwrs == { 0, 100, 130, 131, 150, 151, 200 }
EngineRisks == { "low", "moderate", "high" }
EngineTsbs == { 0 - 200, 0 - 151, 0 - 150, 0 - 106, 0, 100, 101 }
EngineCtls == { 0, 50, 51, 400 }
EngineRestDays == { 0, 2, 3 }
EngineEfforts == { 0, 5 }          \* perceived_effort, 0 is None

\* the fields of AthleteState that generate_decision reads
EngineStates ==
    [ activities_count : EngineCounts, acwr : EngineAcwrs, injury_risk : EngineRisks,
      training_stress_balance : EngineTsbs, chronic_load : EngineCtls,
      days_since_last : EngineRestDays ]

ThresholdKeys == { "acwr_danger", "acwr_caution", "tsb_fatigued", "tsb_fresh" }

\* the dict of get_effective_thresholds for a row with all multipliers m
LearnedThresholds(m) ==
    LET e == get_effective_thresholds(
                [ NewAdjustment EXCEPT !.acwr_danger_multiplier = m,
                                       !.acwr_caution_multiplier = m,
                                       !.tsb_rest_multiplier = m ])
    IN  [ k \in { "acwr_danger", "acwr_caution", "tsb_fatigued" } |-> e[k] ]

\* a caller's own dict: every key, the two ACWR thresholds the other way round
CustomThresholds ==
    [ k \in ThresholdKeys |->
        CASE k = "acwr_danger" -> 1200000
          [] k = "acwr_caution" -> 1400000
          [] k = "tsb_fatigued" -> 0 - 10000000
          [] OTHER -> 5000000 ]

EngineThresholds ==
    { [ k \in {} |-> 0 ], LearnedThresholds(MULT_MIN), LearnedThresholds(1000),
      LearnedThresholds(MULT_MAX), CustomThresholds }

\* generate_decision is about to be called with these arguments
EngineInit ==
    \E state \in EngineStates, pe \in EngineEfforts, thresholds \in EngineThresholds :
        /\ adj = NoRow
        /\ feedback = << >>
        /\ activities = {}
        /\ user = DefaultUser
        /\ now = Epoch
        /\ response = NoResponse
        /\ bf = IdleBackfill
        /\ ci = IdleCompliance
        /\ dp = IdlePhase
        /\ calc = IdleCalc
        /\ de = [ phase |-> "called", state |-> state, pe |-> pe,
                  thresholds |-> thresholds ]

\* the call of DecisionEngine().generate_decision returns
engine_decide ==
    /\ de.phase = "called"
    /\ de' = [ phase |-> "decided", state |-> de.state, pe |-> de.pe,
               thresholds |-> de.thresholds,
               decision |-> DecisionEngine_generate_decision(de.state, de.pe, de.thresholds) ]
    /\ UNCHANGED <<adj, feedback, activities, user, now, response, bf, calc, ci, dp>>

EngineNext == engine_decide

SpecEngine == EngineInit /\ [][EngineNext]_vars

(***************************************************************************)
(* SpecCalc: the two state computations on any list of activities, and     *)
(* _calculate_readiness on any TSB, ACWR and days since the last activity. *)
(***************************************************************************)
MaxCalcActs == 2      \* activities in the list

HardRunA == ActivityData(1, Epoch - 4 * TicksPerDay, "Run", 60, 14, 20, 190, 390)
HardRunB == ActivityData(2, Epoch - 4 * TicksPerDay + 1, "Run", 60, 14, 20, 190, 390)
OldRide == ActivityData(3, Epoch - 20 * TicksPerDay, "Ride", 60, 25, 0, 0, 0)
ShortWalk == ActivityData(4, Epoch, "Walk", 5, 1, 0, 0, 0)
AncientRun == ActivityData(5, Epoch - 50 * TicksPerDay, "Run", 45, 8, 0, 125, 300)
HillRun == ActivityData(6, Epoch - TicksPerDay, "Run", 45, 10, 350, 0, 400)
EasyRun == ActivityData(7, Epoch - 2 * TicksPerDay, "Run", 40, 7, 50, 125, 280)
CalcPool == { HardRunA, HardRunB, OldRide, ShortWalk, AncientRun, HillRun, EasyRun }
CalcActivityLists == { S \in SUBSET CalcPool : Cardinality(S) <= MaxCalcActs }

\* AthleteStateCalculator(max_hr, rest_hr)
Calculators == { [ max_hr |-> 190, rest_hr |-> 60 ], [ max_hr |-> 60, rest_hr |-> 60 ] }

\* the arguments of a direct call of _calculate_readiness: tsb in tenths
ProbeTsbs == { 0 - 1000, 0 - 167, 0 - 166, 0, 1, 124, 125, 126, 1000 }
ProbeAcwrs == { 0, 49, 50, 79, 80, 130, 131, 150, 151, 400 }
ProbeDays == { 0 - 1, 0, 1, 2, 3, 4, 999 }

\* the activities of a direct call of calculate_training_load
ProbeElevations == { 0, 100, 101, 300, 301, 350 }
LoadProbes ==
    { ActivityData(8, Epoch - TicksPerDay, type, 45, 10, elevation_m, avg_hr, 400) :
        type \in { "Run", "Hike", "Yoga" }, elevation_m \in ProbeElevations,
        avg_hr \in { 0, 150 } }

CalcCalls ==
    { [ phase |-> "called", op |-> "load", activity |-> activity,
        max_hr |-> c.max_hr, rest_hr |-> c.rest_hr ] :
        activity \in LoadProbes, c \in Calculators }
    \cup
    { [ phase |-> "called", op |-> "state", activities |-> acts, now |-> t,
        max_hr |-> c.max_hr, rest_hr |-> c.rest_hr ] :
        acts \in CalcActivityLists, t \in { Epoch, Epoch + 1 }, c \in Calculators }
    \cup
    { [ phase |-> "called", op |-> "readiness", tsb |-> tsb, acwr |-> acwr,
        days_since |-> days ] :
        tsb \in ProbeTsbs, acwr \in ProbeAcwrs, days \in ProbeDays }

CalcInit ==
    /\ adj = NoRow
    /\ feedback = << >>
    /\ activities = {}
    /\ user = DefaultUser
    /\ now = Epoch
    /\ response = NoResponse
    /\ bf = IdleBackfill
    /\ ci = IdleCompliance
    /\ dp = IdlePhase
    /\ de = IdleEngine
    /\ calc \in CalcCalls

\* AthleteStateCalculator.calculate_state returns or raises
calc_calculate_state ==
    /\ calc.phase = "called"
    /\ calc.op = "state"
    /\ calc' = IF calculate_state_raises(calc.activities, calc.max_hr, calc.rest_hr)
               THEN [ calc EXCEPT !.phase = "raised" ]
               ELSE [ phase |-> "state", op |-> calc.op, activities |-> calc.activities,
                      now |-> calc.now, max_hr |-> calc.max_hr, rest_hr |-> calc.rest_hr,
                      state |-> calculate_state(calc.activities, calc.now,
                                                calc.max_hr, calc.rest_hr) ]
    /\ UNCHANGED <<adj, feedback, activities, user, now, response, bf, de, ci, dp>>

\* calculate_athlete_state of routers/decision.py on the same rows, the
\* query having kept the last 42 days
calc_router_state ==
    /\ calc.phase = "called"
    /\ calc.op = "state"
    /\ LET recent == Last42Days(calc.activities, calc.now) IN
       calc' = IF StateRaises(recent, calc.max_hr, calc.rest_hr)
               THEN [ calc EXCEPT !.phase = "raised" ]
               ELSE [ phase |-> "router", op |-> calc.op, activities |-> calc.activities,
                      now |-> calc.now, max_hr |-> calc.max_hr, rest_hr |-> calc.rest_hr,
                      state |-> calculate_athlete_state(recent, calc.now,
                                                        calc.max_hr, calc.rest_hr) ]
    /\ UNCHANGED <<adj, feedback, activities, user, now, response, bf, de, ci, dp>>

\* _calculate_readiness returns
calc_readiness ==
    /\ calc.phase = "called"
    /\ calc.op = "readiness"
    /\ calc' = [ phase |-> "readiness", op |-> calc.op, tsb |-> calc.tsb,
                 acwr |-> calc.acwr, days_since |-> calc.days_since,
                 score |-> _calculate_readiness(calc.tsb * 42 * 1000, calc.acwr,
                                                calc.days_since) ]
    /\ UNCHANGED <<adj, feedback, activities, user, now, response, bf, de, ci, dp>>

\* AthleteStateCalculator.calculate_training_load returns or raises
calc_training_load ==
    /\ calc.phase = "called"
    /\ calc.op = "load"
    /\ calc' = IF calc.activity.avg_hr > 0
                  /\ _trimp_with_hr_raises(calc.activity, calc.max_hr, calc.rest_hr)
               THEN [ calc EXCEPT !.phase = "raised" ]
               ELSE [ phase |-> "load", op |-> calc.op, activity |-> calc.activity,
                      max_hr |-> calc.max_hr, rest_hr |-> calc.rest_hr,
                      load |-> calculate_training_load(calc.activity, calc.max_hr,
                                                       calc.rest_hr) ]
    /\ UNCHANGED <<adj, feedback, activities, user, now, response, bf, de, ci, dp>>

CalcNext ==
    \/ calc_training_load
    \/ calc_calculate_state
    \/ calc_router_state
    \/ calc_readiness

SpecCalc == CalcInit /\ [][CalcNext]_vars

(***************************************************************************)
(* infer_compliance and karvonen_zone called as functions                  *)
(***************************************************************************)
\* the actions of both decision engines, two of them as a caller may spell them
ComplianceActions ==
    { "rest", "REST", "reduce", "maintain", "increase", "Increase",
      "quality", "easy", "moderate", "active_recovery" }
\* average heart rates: missing (0), negative, below rest, and around every
\* band boundary of a 190/60 athlete (125, 138, 151, 164, 177)
ComplianceHeartRates ==
    { 0 - 5, 0, 55, 124, 125, 135, 137, 138, 150, 151, 163, 164, 176, 177, 190 }
\* durations in minutes: missing, and around the 25 minute limit
ComplianceDurations == { None, 0, 20, 25, 26, 90 }
ComplianceUsers == { ProfiledUser, FlatUser }

ComplianceCalls ==
    { [ phase |-> "called", op |-> "infer", action |-> action, avg_hr |-> avg_hr,
        duration |-> duration, max_hr |-> u.max_hr, rest_hr |-> u.rest_hr ] :
        action \in ComplianceActions, avg_hr \in ComplianceHeartRates,
        duration \in ComplianceDurations, u \in ComplianceUsers }
    \cup
    { [ phase |-> "called", op |-> "zone", avg_hr |-> avg_hr,
        max_hr |-> u.max_hr, rest_hr |-> u.rest_hr ] :
        avg_hr \in ComplianceHeartRates, u \in ComplianceUsers }

ComplianceInit ==
    /\ adj = NoRow
    /\ feedback = << >>
    /\ activities = {}
    /\ user = DefaultUser
    /\ now = Epoch
    /\ response = NoResponse
    /\ bf = IdleBackfill
    /\ de = IdleEngine
    /\ calc = IdleCalc
    /\ ci \in ComplianceCalls
    /\ dp = IdlePhase

\* infer_compliance returns (followed, detected_zone, reason)
compliance_infer ==
    /\ ci.phase = "called"
    /\ ci.op = "infer"
    /\ LET r == infer_compliance(ci.action, ci.avg_hr, ci.duration,
                                 ci.max_hr, ci.rest_hr)
       IN  ci' = [ phase |-> "inferred", op |-> "infer", action |-> ci.action,
                   avg_hr |-> ci.avg_hr, duration |-> ci.duration,
                   max_hr |-> ci.max_hr, rest_hr |-> ci.rest_hr,
                   followed |-> r.followed, zone |-> r.zone, reason |-> r.reason ]
    /\ UNCHANGED <<adj, feedback, activities, user, now, response, bf, de, calc, dp>>

\* karvonen_zone returns the zone number
compliance_zone ==
    /\ ci.phase = "called"
    /\ ci.op = "zone"
    /\ ci' = [ phase |-> "zoned", op |-> "zone", avg_hr |-> ci.avg_hr,
               max_hr |-> ci.max_hr, rest_hr |-> ci.rest_hr,
               zone |-> karvonen_zone(ci.avg_hr, ci.max_hr, ci.rest_hr) ]
    /\ UNCHANGED <<adj, feedback, activities, user, now, response, bf, de, calc, dp>>

ComplianceNext ==
    \/ compliance_infer
    \/ compliance_zone

SpecCompliance == ComplianceInit /\ [][ComplianceNext]_vars

(***************************************************************************)
(* SpecPhase: detect_phase on any ATL, CTL, TSB and ACWR over a history of *)
(* feedback records.  TSB is in tenths, ACWR in hundredths, a confidence   *)
(* in ten-thousandths, a compliance in tenths of a percent.                *)
(***************************************************************************)
\* the rows of one of the two queries: auto-inferred, dated from the cutoff
PhaseQuery(store, t, actions) ==
    { i \in 1 .. Len(store) :
        /\ store[i].auto_inferred
        /\ store[i].date >= Midnight(t - 7 * TicksPerDay)
        /\ store[i].action \in actions }

\* followed / total * 100 as the fraction <<numerator, denominator>>, 50.0
\* when the query finds no row
ComplianceOf(store, rows) ==
    IF Cardinality(rows) > 0
    THEN << 100 * Cardinality({ i \in rows : store[i].followed }), Cardinality(rows) >>
    ELSE << 50, 1 >>

AllActions(store) == { store[i].action : i \in 1 .. Len(store) }

\* the deload confidence without its cap
detect_phase_uncapped(atl, ctl, tsb, acwr, store, t) ==
    LET rows == PhaseQuery(store, t, AllActions(store))
        c7 == ComplianceOf(store, rows)
        inc == ComplianceOf(store, PhaseQuery(store, t, {"increase"}))
        metrics == [ tsb |-> tsb, acwr |-> acwr, ctl |-> ctl, atl |-> atl,
                     compliance_7d |-> RoundDiv(c7[1] * 10, c7[2]),
                     increase_compliance |-> RoundDiv(inc[1] * 10, inc[2]),
                     days_with_data |-> Cardinality(rows) ]
    IN  IF tsb < 0 - 200 \/ acwr > 130 \/ c7[1] < 35 * c7[2]
        THEN [ phase |-> "descarga", confidence |-> 7000 + abs(tsb) * 10,
               metrics_used |-> metrics ]
        ELSE IF ctl >= 60 /\ tsb >= 0 - 50 /\ c7[1] >= 70 * c7[2]
        THEN [ phase |-> "pico", confidence |-> 8500, metrics_used |-> metrics ]
        ELSE [ phase |-> "None" ]

\* detect_phase; the function ends after the second rule, so that a state
\* matching neither returns None
detect_phase(atl, ctl, tsb, acwr, store, t) ==
    LET rows == PhaseQuery(store, t, AllActions(store))
        c7 == ComplianceOf(store, rows)
        inc == ComplianceOf(store, PhaseQuery(store, t, {"increase"}))
        metrics == [ tsb |-> tsb, acwr |-> acwr, ctl |-> ctl, atl |-> atl,
                     compliance_7d |-> RoundDiv(c7[1] * 10, c7[2]),
                     increase_compliance |-> RoundDiv(inc[1] * 10, inc[2]),
                     days_with_data |-> Cardinality(rows) ]
    IN  IF tsb < 0 - 200 \/ acwr > 130 \/ c7[1] < 35 * c7[2]
        THEN [ phase |-> "descarga", confidence |-> Min(9500, 7000 + abs(tsb) * 10),
               metrics_used |-> metrics ]
        ELSE IF ctl >= 60 /\ tsb >= 0 - 50 /\ c7[1] >= 70 * c7[2]
        THEN [ phase |-> "pico", confidence |-> 8500, metrics_used |-> metrics ]
        ELSE [ phase |-> "None" ]

PhaseTsbs == { 0 - 400, 0 - 251, 0 - 250, 0 - 249, 0 - 201, 0 - 200, 0 - 51, 0 - 50, 0, 150 }
PhaseAcwrs == { 0, 100, 130, 131, 200 }
PhaseCtls == { 0, 59, 60, 95 }
PhaseAtls == { 40 }

\* n rows of one action and answer on one date
PhaseRows(action, followed, auto, n, date) ==
    [ k \in 1 .. n |->
        FeedbackRow(date, action, followed, auto, NoMetrics, 0, 0, "", "", {}) ]

\* followed and not followed auto-inferred rows inside the last seven days
PhaseCounts == { <<0, 0>>, <<1, 2>>, <<2, 4>>, <<7, 13>>, <<3, 5>>, <<2, 1>>, <<7, 3>>, <<5, 2>>, <<6, 0>> }

\* the rows outside the queries: auto-inferred rows of the day before the
\* cutoff and manual rows of the last days, all ignored
PhaseStores ==
    { PhaseRows("reduce", FALSE, TRUE, old, Epoch - 8 * TicksPerDay + 1)
        \o PhaseRows("reduce", TRUE, TRUE, c[1], Epoch - 7 * TicksPerDay)
        \o PhaseRows("increase", FALSE, TRUE, c[2], Epoch - TicksPerDay)
        \o PhaseRows("rest", FALSE, FALSE, manual, Epoch - TicksPerDay) :
        c \in PhaseCounts, old \in { 0, 3 }, manual \in { 0, 4 } }

PhaseCalls ==
    { [ pc |-> "called", atl |-> atl, ctl |-> ctl, tsb |-> tsb, acwr |-> acwr ] :
        atl \in PhaseAtls, ctl \in PhaseCtls, tsb \in PhaseTsbs, acwr \in PhaseAcwrs }

PhaseInit ==
    /\ adj = NoRow
    /\ feedback \in PhaseStores
    /\ activities = {}
    /\ user = DefaultUser
    /\ now \in { Epoch, Epoch + 1 }
    /\ response = NoResponse
    /\ bf = IdleBackfill
    /\ de = IdleEngine
    /\ calc = IdleCalc
    /\ ci = IdleCompliance
    /\ dp \in PhaseCalls

\* detect_phase returns
phase_detect ==
    /\ dp.pc = "called"
    /\ dp' = [ pc |-> "returned", atl |-> dp.atl, ctl |-> dp.ctl, tsb |-> dp.tsb,
               acwr |-> dp.acwr,
               result |-> detect_phase(dp.atl, dp.ctl, dp.tsb, dp.acwr, feedback, now) ]
    /\ UNCHANGED <<adj, feedback, activities, user, now, response, bf, de, calc, ci>>

PhaseNext == phase_detect

SpecPhase == PhaseInit /\ [][PhaseNext]_vars

(***************************************************************************)
(* C1: starting from a fresh profile, after any sequence of learner runs,  *)
(* resets and learning-speed changes, each of the five multipliers is      *)
(* within [0.70, 1.30].                                                    *)
(***************************************************************************)
Multipliers(a) ==
    { a.acwr_danger_multiplier, a.acwr_caution_multiplier, a.tsb_rest_multiplier,
      a.tsb_reduce_multiplier, a.readiness_low_multiplier }

C1_MultipliersBounded ==
    adj.exists => \A m \in Multipliers(adj) : MULT_MIN <= m /\ m <= MULT_MAX

\* the learner has run and a multiplier sits at a bound the clamp enforces
C1_Witness ==
    /\ adj.exists
    /\ adj.total_analyzed > 0
    /\ adj.acwr_danger_multiplier = MULT_MAX

(***************************************************************************)
(* C2: however often run_compliance_inference runs, the store never holds  *)
(* two auto-inferred rows of one calendar day; after a run, it holds       *)
(* exactly one for every day of the window that has an activity visible    *)
(* (started before the end of the day, in the 42 days of the run) and      *)
(* whose state can be computed. A day with nothing visible is skipped.     *)
(***************************************************************************)
ModelDays == { Epoch + k * TicksPerDay : k \in (0 - MaxLookback - 1) .. 1 }

WindowDays == { bf.today - k * TicksPerDay : k \in 1 .. bf.days_back }

AutoRows(day_start) ==
    Cardinality(ExistingAuto(feedback, day_start, day_start + TicksPerDay))

VisibleOn(day_start) ==
    ActivitiesUntilDay(AllActivities(activities, bf.today), day_start + TicksPerDay)

C2_OneAutoRowPerProcessedDay ==
    /\ \A d \in ModelDays : AutoRows(d) <= 1
    /\ bf.pc = "done" =>
         \A d \in WindowDays :
            ( /\ VisibleOn(d) # {}
              /\ ~StateRaises(VisibleOn(d), MaxHr(user), RestHr(user)) )
            => AutoRows(d) = 1

\* a second run over the same window has overwritten the row of a day
C2_Witness ==
    /\ bf.pc = "done"
    /\ bf.repeated
    /\ bf.inferred >= 1
    /\ \E d \in WindowDays : AutoRows(d) = 1

\* C2 as stated: after two runs over one window, every day of the window
\* has exactly one auto-inferred row
C2_ExactlyOnePerWindowDay ==
    (bf.pc = "done" /\ bf.repeated) => \A d \in WindowDays : AutoRows(d) = 1

(***************************************************************************)
(* C3: every activity that went into the state and the decision of an      *)
(* auto-inferred row of day D started strictly before the end of D.        *)
(***************************************************************************)
AutoIndices == { i \in 1 .. Len(feedback) : feedback[i].auto_inferred }

UsedActivities(row) == { a \in activities : a.id \in row.used }

C3_StrictCutoff ==
    \A i \in AutoIndices :
        \A a \in UsedActivities(feedback[i]) :
            a.start_date < feedback[i].date + TicksPerDay

\* a row was computed while an activity started exactly at the end of its day
C3_Witness ==
    \E i \in AutoIndices :
        /\ feedback[i].used # {}
        /\ \E a \in activities :
              /\ a.start_date = feedback[i].date + TicksPerDay
              /\ a.id \notin feedback[i].used

(***************************************************************************)
(* C4: the action stored for day D is the action of the decision computed  *)
(* from the same activities with their ages measured from the end of D.    *)
(***************************************************************************)
ActionAsOf(row) ==
    generate_decision(
        calculate_athlete_state(UsedActivities(row), row.date + TicksPerDay,
                                MaxHr(user), RestHr(user))).action

C4_ActionAsOfDay ==
    \A i \in AutoIndices : feedback[i].action = ActionAsOf(feedback[i])

(***************************************************************************)
(* C5: feedback loop: a decision generated after the learner changed a     *)
(* multiplier is evaluated against the base thresholds (danger 1.5,        *)
(* caution 1.3) times the stored multipliers, 1.0 without a profile.       *)
(***************************************************************************)
DecisionAnswered ==
    /\ response' # response
    /\ response'.status = 200
    /\ response'.endpoint = "decision"

C5_DecisionUsesLearnedThresholds ==
    [][ DecisionAnswered =>
          /\ response'.thresholds.acwr_danger = get_effective_thresholds(adj').acwr_danger
          /\ response'.thresholds.acwr_caution = get_effective_thresholds(adj').acwr_caution
      ]_vars

(***************************************************************************)
(* C6: DecisionEngine.generate_decision returns the branch of the first    *)
(* rule that matches, in the order insufficient data (confidence 0.3),     *)
(* high load, elevated load, fatigued, fresh, comeback, normal; a later    *)
(* rule never wins when an earlier one matches.                            *)
(***************************************************************************)
RuleMatches(k, s, th) ==
    CASE k = 1 -> s.activities_count < 3
      [] k = 2 -> \/ s.acwr * 10000 > ThGet(th, "acwr_danger", 1500000)
                  \/ s.injury_risk = "high"
      [] k = 3 -> \/ s.acwr * 10000 > ThGet(th, "acwr_caution", 1300000)
                  \/ s.injury_risk = "moderate"
      [] k = 4 -> s.training_stress_balance * 100000 < ThGet(th, "tsb_fatigued", 0 - 15000000)
      [] k = 5 -> /\ s.training_stress_balance * 100000 > ThGet(th, "tsb_fresh", 10000000)
                  /\ s.chronic_load > 50
      [] k = 6 -> s.days_since_last >= 3
      [] OTHER -> TRUE

FirstRule(s, th) ==
    CHOOSE k \in 1 .. 7 :
        /\ RuleMatches(k, s, th)
        /\ \A j \in 1 .. (k - 1) : ~RuleMatches(j, s, th)

BranchOfRule(k, s, pe) ==
    CASE k = 1 -> _insufficient_data(s)
      [] k = 2 -> _high_load_day(s, pe)
      [] k = 3 -> _elevated_load_day(s, pe)
      [] k = 4 -> _fatigued_day(s, pe)
      [] k = 5 -> _fresh_day(s, pe)
      [] k = 6 -> _comeback_day(s, pe)
      [] OTHER -> _normal_day(s, pe)

\* action and confidence (hundredths) the seven rules stand for
OutcomeOfRule(k) ==
    CASE k = 1 -> << "moderate", 30 >>
      [] k = 2 -> << "active_recovery", 85 >>
      [] k = 3 -> << "easy", 80 >>
      [] k = 4 -> << "easy", 75 >>
      [] k = 5 -> << "quality", 85 >>
      [] k = 6 -> << "moderate", 70 >>
      [] OTHER -> << "moderate", 75 >>

C6_FirstMatchingRuleWins ==
    de.phase = "decided" =>
        LET k == FirstRule(de.state, de.thresholds) IN
        /\ de.decision = BranchOfRule(k, de.state, de.pe)
        /\ << de.decision.action, de.decision.confidence >> = OutcomeOfRule(k)

\* fewer than 3 activities with a dangerous ACWR and high risk: rule 1 won
C6_Witness ==
    /\ de.phase = "decided"
    /\ RuleMatches(1, de.state, de.thresholds)
    /\ de.state.acwr * 10000 > ThGet(de.thresholds, "acwr_danger", 1500000)
    /\ de.state.injury_risk = "high"
    /\ de.decision.confidence = 30

(***************************************************************************)
(* C7: every Decision of DecisionEngine.generate_decision has a primary    *)
(* and an alternative workout, each of positive duration with a non-empty  *)
(* zone label and a non-empty example list; the decision of the high-load  *)
(* branch has a risk note.                                                 *)
(***************************************************************************)
WorkoutComplete(w) ==
    /\ w.duration_min > 0
    /\ w.intensity_zone # ""
    /\ Len(w.examples) > 0
    /\ \A i \in 1 .. Len(w.examples) : w.examples[i] # ""

C7_DecisionsComplete ==
    de.phase = "decided" =>
        /\ WorkoutComplete(de.decision.primary_workout)
        /\ WorkoutComplete(de.decision.alternative_workout)
        /\ FirstRule(de.state, de.thresholds) = 2 => de.decision.risk_note # NoText

\* a decision of the high-load branch, reached through the learned danger threshold
C7_Witness ==
    /\ de.phase = "decided"
    /\ FirstRule(de.state, de.thresholds) = 2
    /\ de.state.injury_risk = "low"
    /\ de.decision.action = "active_recovery"
    /\ de.decision.risk_note # NoText
    /\ WorkoutComplete(de.decision.primary_workout)
    /\ WorkoutComplete(de.decision.alternative_workout)

(***************************************************************************)
(* C8: ACWR is 0 when the chronic load the ratio is taken from is 0, and   *)
(* also when the acute load is 0 with a chronic load above 0; it is 0 only *)
(* if the chronic load is 0 or ATL / CTL is at most 0.005.                 *)
(***************************************************************************)
CalcAtlTotal ==
    ExponentialTotal(calc.activities, calc.now, CalcDecay7, 7, calc.max_hr, calc.rest_hr)

CalcCtlTotal ==
    ExponentialTotal(calc.activities, calc.now, CalcDecay42, 42, calc.max_hr, calc.rest_hr)

C8_AcwrZeroCases ==
    /\ (calc.phase = "state" /\ calc.activities # {}) =>
          /\ CalcCtlTotal = 0 => calc.state.acwr = 0
          /\ CalcAtlTotal = 0 => calc.state.acwr = 0
          /\ calc.state.acwr = 0 =>
                (CalcCtlTotal = 0 \/ CalcAtlTotal <= CalcCtlTotal \div 1200)
    /\ calc.phase = "router" =>
          /\ calc.state.chronic_load_ctl = 0 => calc.state.acwr = 0
          /\ calc.state.acute_load_atl = 0 => calc.state.acwr = 0
          /\ calc.state.acwr = 0 =>
                \/ calc.state.chronic_load_ctl = 0
                \/ calc.state.acute_load_atl <= calc.state.chronic_load_ctl \div 200

\* only activities older than 7 days and inside the 42 days: ATL = 0, CTL > 0
C8_Witness ==
    /\ calc.phase = "state"
    /\ calc.activities # {}
    /\ CalcAtlTotal = 0
    /\ CalcCtlTotal > 0
    /\ calc.state.chronic_load > 0
    /\ calc.state.acwr = 0

\* C8 as stated: ACWR = 0 if and only if CTL = 0
C8_AcwrZeroIffCtlZero ==
    /\ calc.phase = "state" => (calc.state.acwr = 0 <=> calc.state.chronic_load = 0)
    /\ calc.phase = "router" => (calc.state.acwr = 0 <=> calc.state.chronic_load_ctl = 0)

(***************************************************************************)
(* C9: a readiness score is within [0, 100]; that of AthleteStateCalculator*)
(* is 50 plus a TSB term within [-25, 25], an ACWR term of +15, -15, -5 or *)
(* 0 and a rest-days term of +5, +10, -5 or 0.                             *)
(***************************************************************************)
ClaimedAcwrTerms == { 15, 0 - 15, 0 - 5, 0 }
ClaimedRestTerms == { 5, 10, 0 - 5, 0 }

\* score, in the fraction unit of a point, is 50 + t + a + r with t in [-25, 25]
ScoreDecomposes(score, unit) ==
    \E a \in ClaimedAcwrTerms, r \in ClaimedRestTerms :
        LET t == score - (50 + a + r) * unit
        IN  (0 - 25) * unit <= t /\ t <= 25 * unit

C9_ReadinessInRange ==
    /\ calc.phase = "readiness" =>
          /\ 0 <= calc.score /\ calc.score <= 100 * ScoreUnit
          /\ ScoreDecomposes(calc.score, ScoreUnit)
    /\ calc.phase = "state" =>
          /\ 0 <= calc.state.readiness_score /\ calc.state.readiness_score <= 1000
          /\ calc.activities # {} => ScoreDecomposes(calc.state.readiness_score, 10)
    /\ calc.phase = "router" =>
          0 <= calc.state.readiness_score /\ calc.state.readiness_score <= 1000

\* the lowest score: TSB -100, ACWR 4.0, a long rest
C9_Witness ==
    /\ calc.phase = "readiness"
    /\ calc.tsb = 0 - 1000
    /\ calc.acwr = 400
    /\ calc.days_since = 999
    /\ calc.score = 5 * ScoreUnit

(***************************************************************************)
(* C10: with no activity the state computation does not fail: the answer   *)
(* is the neutral state, ATL 0, CTL 0, TSB 0, ACWR 0, readiness 100, low   *)
(* injury risk.                                                            *)
(***************************************************************************)
IsNeutralState(st) ==
    /\ st.acute_load_atl = 0
    /\ st.chronic_load_ctl = 0
    /\ st.stress_balance_tsb = 0
    /\ st.acwr = 0
    /\ st.readiness_score = 1000
    /\ st.injury_risk = "low"

C10_EmptyGivesNeutralState ==
    (response.endpoint \in {"state", "decision"} /\ Last42Days(activities, now) = {}) =>
        /\ response.status = 200
        /\ IsNeutralState(response.state)

(***************************************************************************)
(* C11: when the recommended action is "rest", followed is true exactly    *)
(* when the day has no activity (no duration was passed) or the main       *)
(* activity is in zone 1 or lower and lasted at most 25 minutes; every     *)
(* other activity, zone 2 or higher or longer than 25 minutes, gives       *)
(* followed = false.                                                       *)
(***************************************************************************)
C11_RestFollowedIffQuietDay ==
    (ci.phase = "inferred" /\ lower(ci.action) = "rest") =>
        (ci.followed <=>
            \/ ci.duration = None
            \/ /\ karvonen_zone(ci.avg_hr, ci.max_hr, ci.rest_hr) <= 1
               /\ ci.duration <= 25)

(***************************************************************************)
(* C12: for a day with an activity (a heart rate above 0 and a duration),  *)
(* followed is true only when the zone lies in the band of the action:     *)
(* zone <= 2 for reduce, 1..3 for maintain, >= 3 for increase and quality; *)
(* and the reason is never empty.                                          *)
(***************************************************************************)
InBand(action, zone) ==
    CASE action = "reduce" -> zone <= 2
      [] action = "maintain" -> 1 <= zone /\ zone <= 3
      [] action \in {"increase", "quality"} -> zone >= 3
      [] OTHER -> TRUE

C12_FollowedOnlyInsideBand ==
    ci.phase = "inferred" =>
        /\ ci.reason # ""
        /\ (ci.avg_hr > 0 /\ ci.duration # None /\ ci.followed) =>
              InBand(lower(ci.action),
                     karvonen_zone(ci.avg_hr, ci.max_hr, ci.rest_hr))

(***************************************************************************)
(* C18: karvonen_zone puts (avg_hr - rest_hr) / (max_hr - rest_hr) below   *)
(* 60% in zone 1, 60-70% in zone 2, 70-80% in zone 3, 80-90% in zone 4 and *)
(* 90% or more in zone 5, a boundary value falling in the higher zone. A   *)
(* day whose avg_hr is missing or 0, or whose duration is missing, is      *)
(* reported with zone "none"; a day with a duration and a negative avg_hr, *)
(* or a heart rate but max_hr <= rest_hr, is reported with zone "Z?".      *)
(***************************************************************************)
\* the band of a percentage num / den, for den > 0
BandOf(num, den) ==
    IF 10 * num >= 9 * den THEN 5
    ELSE IF 10 * num >= 8 * den THEN 4
    ELSE IF 10 * num >= 7 * den THEN 3
    ELSE IF 10 * num >= 6 * den THEN 2
    ELSE 1

BandLabel(band) == <<"Z1", "Z2", "Z3", "Z4", "Z5">>[band]

C18_ZoneBands ==
    /\ ci.phase = "zoned" =>
          IF ci.avg_hr > 0 /\ ci.max_hr > ci.rest_hr
          THEN ci.zone = BandOf(ci.avg_hr - ci.rest_hr, ci.max_hr - ci.rest_hr)
          ELSE ci.zone = 0
    /\ ci.phase = "inferred" =>
          IF ci.avg_hr = 0 \/ ci.duration = None
          THEN ci.zone = "none"
          ELSE IF ci.avg_hr > 0 /\ ci.max_hr > ci.rest_hr
          THEN ci.zone = BandLabel(BandOf(ci.avg_hr - ci.rest_hr,
                                          ci.max_hr - ci.rest_hr))
          ELSE ci.zone = "Z?"

\* 138 bpm is exactly 60% of the reserve of a 190/60 athlete: zone 2
C18_Witness ==
    /\ ci.phase = "inferred"
    /\ ci.avg_hr = 138
    /\ ci.max_hr = 190
    /\ ci.rest_hr = 60
    /\ ci.duration = 20
    /\ ci.zone = "Z2"

\* C18 as stated: the bands as above, and a day with avg_hr <= 0 or a
\* missing duration is reported with zone "none"
C18_NoDataIsNone ==
    /\ (ci.phase = "zoned" /\ ci.avg_hr > 0 /\ ci.max_hr > ci.rest_hr) =>
          ci.zone = BandOf(ci.avg_hr - ci.rest_hr, ci.max_hr - ci.rest_hr)
    /\ (ci.phase = "inferred" /\ (ci.avg_hr <= 0 \/ ci.duration = None)) =>
          ci.zone = "none"

(***************************************************************************)
(* C13: run_compliance_inference never modifies or removes a record the    *)
(* athlete submitted by hand, even when that record is dated inside the    *)
(* window it reprocesses; and a manual submission appends exactly one new  *)
(* record and changes no record that was there.                            *)
(***************************************************************************)
C13_ManualRecordsKept ==
    [][ /\ \A i \in ManualRows(feedback) :
              i <= Len(feedback') /\ feedback'[i] = feedback[i]
        /\ Cardinality(ManualRows(feedback')) # Cardinality(ManualRows(feedback)) =>
              /\ Len(feedback') = Len(feedback) + 1
              /\ SubSeq(feedback', 1, Len(feedback)) = feedback
              /\ ~feedback'[Len(feedback')].auto_inferred ]_vars

\* a finished run has written its record for a day that holds a manual one
C13_Witness ==
    /\ bf.pc = "done"
    /\ \E i \in ManualRows(feedback), j \in 1 .. Len(feedback) :
          /\ feedback[j].auto_inferred
          /\ i < j
          /\ feedback[j].date <= feedback[i].date
          /\ feedback[i].date < feedback[j].date + TicksPerDay

(***************************************************************************)
(* C14: a day whose reconstruction raises is caught and counted in errors, *)
(* no record is written for it, every other day of the run that has        *)
(* activities behind it is still processed and has its record, and the run *)
(* completes.                                                              *)
(***************************************************************************)
RunDays == { target_date(bf.today, k) : k \in 1 .. bf.days_back }

UntilOf(d) == ActivitiesUntilDay(AllActivities(activities, bf.today), d + TicksPerDay)

RaisesOn(d) == UntilOf(d) # {} /\ StateRaises(UntilOf(d), MaxHr(user), RestHr(user))

RecordsOf(d) == { i \in 1 .. Len(feedback) :
                    feedback[i].auto_inferred /\ feedback[i].date = d }

C14_ErrorsCountedRunCompletes ==
    /\ bf.pc = "loop" => bf.errors + bf.inferred <= bf.days_back - bf.days_ago
    /\ bf.pc = "done" =>
          /\ bf.days_ago = 0
          /\ bf.errors = Cardinality({ d \in RunDays : RaisesOn(d) })
          /\ bf.inferred = Cardinality({ d \in RunDays :
                                           UntilOf(d) # {} /\ ~RaisesOn(d) })
          /\ \A d \in RunDays :
                IF RaisesOn(d) THEN RecordsOf(d) = {}
                ELSE UntilOf(d) # {} => Cardinality(RecordsOf(d)) = 1

\* a finished run that counted an error and wrote the record of another day
C14_Witness ==
    /\ bf.pc = "done"
    /\ bf.errors >= 1
    /\ bf.inferred >= 1
    /\ \E d \in RunDays : RaisesOn(d)
    /\ \E d \in RunDays : Cardinality(RecordsOf(d)) = 1

(***************************************************************************)
(* C19: a run with lookback N handles exactly the days today-N .. today-1, *)
(* in ascending order; no auto-inferred record is ever dated today or      *)
(* later; and the main activity a record reports is the activity of the    *)
(* greatest duration among those that started inside the record's day,     *)
(* none when no activity started that day.                                 *)
(***************************************************************************)
StartedInside(d) == { a \in activities : d <= a.start_date /\ a.start_date < d + TicksPerDay }

LongestOf(S) == CHOOSE m \in { a.duration_min : a \in S } :
                    \A a \in S : a.duration_min <= m

C19_DaysInOrderMainIsLongest ==
    /\ bf.pc \in {"loop", "done"} =>
          /\ Len(bf.visited) = bf.days_back - bf.days_ago
          /\ \A k \in 1 .. Len(bf.visited) :
                bf.visited[k] = bf.today - (bf.days_back - k + 1) * TicksPerDay
    /\ bf.pc = "done" => Len(bf.visited) = bf.days_back
    /\ \A i \in 1 .. Len(feedback) :
          feedback[i].auto_inferred =>
              /\ feedback[i].date + TicksPerDay <= Midnight(now)
              /\ IF StartedInside(feedback[i].date) = {}
                 THEN /\ feedback[i].activity_duration_min = 0
                      /\ feedback[i].activity_avg_hr = 0
                 ELSE /\ feedback[i].activity_duration_min =
                            LongestOf(StartedInside(feedback[i].date))
                      /\ \E a \in StartedInside(feedback[i].date) :
                            /\ a.duration_min = feedback[i].activity_duration_min
                            /\ a.avg_hr = feedback[i].activity_avg_hr

\* a finished run over three days; the day of the 20 minute jog and the 55
\* minute ride has its record, which reports the ride
C19_Witness ==
    /\ bf.pc = "done"
    /\ bf.days_back = 3
    /\ \E i \in 1 .. Len(feedback) :
          /\ feedback[i].auto_inferred
          /\ Cardinality(StartedInside(feedback[i].date)) = 2
          /\ feedback[i].activity_duration_min = 55
          /\ feedback[i].activity_avg_hr = 140

(***************************************************************************)
(* C16: a configuration update with an unknown learning_speed, or with     *)
(* "custom" and a custom_min_signals that is missing or outside 1..50, is  *)
(* rejected (only valid requests are answered 200) and leaves the stored   *)
(* profile as it was; so after any sequence                                *)
(* of updates the learner's min_signals is 10, 5 or 3 for conservative,    *)
(* moderate or fast, and the stored value within 1..50 whenever the stored *)
(* speed is custom.                                                        *)
(***************************************************************************)
ValidConfig(speed, custom) ==
    /\ speed \in { "conservative", "moderate", "fast", "custom" }
    /\ speed = "custom" => (1 <= custom /\ custom <= 50)

ConfigAnswered(status) ==
    /\ response'.endpoint = "config"
    /\ response'.status = status

MinSignalsValid ==
    adj.exists =>
        /\ adj.learning_speed \in { "conservative", "moderate", "fast", "custom" }
        /\ adj.learning_speed = "conservative" => get_min_signals(adj) = 10
        /\ adj.learning_speed = "moderate" => get_min_signals(adj) = 5
        /\ adj.learning_speed = "fast" => get_min_signals(adj) = 3
        /\ adj.learning_speed = "custom" =>
              /\ get_min_signals(adj) = adj.custom_min_signals
              /\ 1 <= adj.custom_min_signals
              /\ adj.custom_min_signals <= 50

C16_InvalidConfigRejected ==
    /\ [] MinSignalsValid
    /\ [][ (ConfigAnswered(400) => adj' = adj)
            /\ (ConfigAnswered(200) =>
                  /\ ValidConfig(response'.message[1], response'.message[2])
                  /\ adj'.learning_speed = response'.message[1]) ]_vars

\* a rejected update has left a custom profile of 1 signal in place
C16_Witness ==
    /\ response.endpoint = "config"
    /\ response.status = 400
    /\ adj.exists
    /\ adj.learning_speed = "custom"
    /\ adj.custom_min_signals = 1

(***************************************************************************)
(* C17: a reset sets the five multipliers to 1.0 and every signal counter  *)
(* and total_analyzed to 0, keeps the row, and leaves learning_speed and   *)
(* custom_min_signals as they were.                                        *)
(***************************************************************************)
Counters(a) ==
    { a.rest_followed, a.rest_ignored, a.rest_good_ignore, a.rest_bad_ignore,
      a.reduce_followed, a.reduce_ignored, a.increase_followed,
      a.increase_ignored, a.total_analyzed }

ResetAnswered == response'.endpoint = "reset"

C17_ResetKeepsSpeed ==
    [][ ResetAnswered =>
          /\ adj'.exists
          /\ Multipliers(adj') = {1000}
          /\ Counters(adj') = {0}
          /\ adj'.learning_speed = get_or_create_thresholds(adj).learning_speed
          /\ adj'.custom_min_signals =
                get_or_create_thresholds(adj).custom_min_signals ]_vars

\* a reset of a learner that had analysed feedback at the custom speed
C17_Witness ==
    /\ response.endpoint = "reset"
    /\ Len(feedback) >= 1
    /\ adj.exists
    /\ adj.learning_speed = "custom"
    /\ adj.custom_min_signals = 1
    /\ Multipliers(adj) = {1000}
    /\ adj.total_analyzed = 0

(***************************************************************************)
(* C20: a run of analyze_and_update leaves the multiplier of a category    *)
(* (acwr_danger for the rest recommendations, acwr_caution for the easy    *)
(* ones) as it was whenever the category has fewer than min_signals        *)
(* observations, whatever its ignore rate.                                 *)
(***************************************************************************)
Observations(store, names) ==
    Cardinality({ i \in 1 .. Len(store) : store[i].action \in names })

AnalysisAnswered == response'.endpoint \in { "feedback", "trigger" }

C20_FewSignalsNoChange ==
    [][ (AnalysisAnswered /\ adj'.exists) =>
          LET old == get_or_create_thresholds(adj)
              min_signals == get_min_signals(old)
          IN  /\ Observations(feedback', {"rest", "active_recovery"}) < min_signals =>
                    adj'.acwr_danger_multiplier = old.acwr_danger_multiplier
              /\ Observations(feedback', {"reduce", "easy"}) < min_signals =>
                    adj'.acwr_caution_multiplier = old.acwr_caution_multiplier ]_vars

\* two rest recommendations, both ignored, analysed by a learner that asks
\* for more than two: the danger multiplier is still 1.0
C20_Witness ==
    /\ response.endpoint \in { "feedback", "trigger" }
    /\ adj.exists
    /\ adj.rest_ignored = 2
    /\ adj.rest_followed = 0
    /\ adj.total_analyzed = 2
    /\ get_min_signals(adj) > 2
    /\ adj.acwr_danger_multiplier = 1000

(***************************************************************************)
(* C21: when a category has at least min_signals observations and its      *)
(* ignore rate is above the category's high threshold (0.6 for the rest    *)
(* recommendations, 0.65 for the reduce ones), one run of                  *)
(* analyze_and_update raises the category's multiplier by exactly 0.03,    *)
(* capped at 1.30.                                                         *)
(***************************************************************************)
\* the 100 most recent records of a store kept in date order
Window(store) == { i \in 1 .. Len(store) : i > Len(store) - 100 }

Answers(store, names, followed) ==
    Cardinality({ i \in Window(store) :
                    store[i].action \in names /\ store[i].followed = followed })

RestNames == { "rest", "active_recovery" }
ReduceNames == { "reduce", "easy" }
IncreaseNames == { "increase", "quality" }

Total(store, names) == Answers(store, names, TRUE) + Answers(store, names, FALSE)

\* ignore rate above num / den
IgnoreRateAbove(store, names, num, den) ==
    Answers(store, names, FALSE) * den > num * Total(store, names)

\* ignore rate below num / den
IgnoreRateBelow(store, names, num, den) ==
    Answers(store, names, FALSE) * den < num * Total(store, names)

C21_HighIgnoreRateRaises ==
    [][ LET min_signals == get_min_signals(adj) IN
        /\ (Total(feedback, RestNames) >= min_signals
              /\ IgnoreRateAbove(feedback, RestNames, 60, 100)) =>
                adj'.acwr_danger_multiplier = Min(adj.acwr_danger_multiplier + 30, 1300)
        /\ (Total(feedback, ReduceNames) >= min_signals
              /\ IgnoreRateAbove(feedback, ReduceNames, 65, 100)) =>
                adj'.acwr_caution_multiplier = Min(adj.acwr_caution_multiplier + 30, 1300)
      ]_vars

\* six reduce records, five of them ignored, at the moderate speed: one run
\* has taken acwr_caution from 1.00 to 1.03
C21_Witness ==
    /\ response.endpoint = "trigger"
    /\ adj.learning_speed = "moderate"
    /\ Answers(feedback, ReduceNames, TRUE) = 1
    /\ Answers(feedback, ReduceNames, FALSE) = 5
    /\ adj.reduce_ignored = 5
    /\ adj.acwr_caution_multiplier = 1030

(***************************************************************************)
(* C22: a run lowers a category multiplier only when the category's ignore *)
(* rate is below 0.2 and the window holds at least twice min_signals       *)
(* observations of the category; the multiplier then goes down by exactly  *)
(* 0.015, floored at 0.70. With an ignore rate from 0.2 up to the high     *)
(* threshold, or a low ignore rate and fewer than twice min_signals        *)
(* observations, the multiplier is unchanged.                              *)
(***************************************************************************)
LowersOnlyWhenCompliant(old, new, names, num, den) ==
    LET min_signals == get_min_signals(adj)
        lowering == /\ IgnoreRateBelow(feedback, names, 20, 100)
                    /\ Total(feedback, names) >= 2 * min_signals
    IN  /\ new < old => lowering /\ new = Max(old - 15, 700)
        /\ (lowering /\ old > 700) => new < old
        /\ (Total(feedback, names) >= 1
              /\ ~IgnoreRateAbove(feedback, names, num, den)
              /\ ~lowering) => new = old

C22_LowIgnoreRateLowers ==
    [][ /\ LowersOnlyWhenCompliant(adj.acwr_danger_multiplier,
                                   adj'.acwr_danger_multiplier, RestNames, 60, 100)
        /\ LowersOnlyWhenCompliant(adj.acwr_caution_multiplier,
                                   adj'.acwr_caution_multiplier, ReduceNames, 65, 100)
      ]_vars

\* six rest records, one ignored, at the fast speed: acwr_danger is 0.985
\* after one run
C22_Witness ==
    /\ response.endpoint = "trigger"
    /\ adj.learning_speed = "fast"
    /\ Answers(feedback, RestNames, TRUE) = 5
    /\ Answers(feedback, RestNames, FALSE) = 1
    /\ adj.acwr_danger_multiplier = 985

(***************************************************************************)
(* C23: tsb_rest_multiplier changes in a run only when the observations    *)
(* counted over all categories are at least twice min_signals and the      *)
(* overall ignore rate is above 0.7; in every other run it keeps its       *)
(* value, and the learner never lowers it.                                 *)
(***************************************************************************)
CountedNames == RestNames \cup ReduceNames \cup IncreaseNames \cup { "moderate" }

C23_CrossCategoryOnlyOnBroadIgnoring ==
    [][ /\ adj'.tsb_rest_multiplier >= adj.tsb_rest_multiplier
        /\ adj'.tsb_rest_multiplier # adj.tsb_rest_multiplier =>
              /\ Total(feedback, CountedNames) >= 2 * get_min_signals(adj)
              /\ IgnoreRateAbove(feedback, CountedNames, 7, 10)
              /\ adj'.tsb_rest_multiplier = Min(adj.tsb_rest_multiplier + 15, 1300)
      ]_vars

\* eight observations, seven ignored, at the fast speed, the two rest
\* records alone below min_signals: tsb_rest is 1.015 after one run
C23_Witness ==
    /\ response.endpoint = "trigger"
    /\ adj.learning_speed = "fast"
    /\ Total(feedback, RestNames) = 2
    /\ Total(feedback, CountedNames) = 8
    /\ Answers(feedback, CountedNames, FALSE) = 7
    /\ adj.tsb_rest_multiplier = 1015

(***************************************************************************)
(* C24: every run overwrites the followed/ignored counters and             *)
(* total_analyzed with the counts recomputed from the 100 most recent      *)
(* records, whatever the counters were; so total_analyzed is at most 100   *)
(* after every run, and a counter can go down from one run to the next.    *)
(***************************************************************************)
C24_CountersRecomputed ==
    [][ /\ adj'.rest_followed = Answers(feedback, RestNames, TRUE)
        /\ adj'.rest_ignored = Answers(feedback, RestNames, FALSE)
        /\ adj'.reduce_followed = Answers(feedback, ReduceNames, TRUE)
        /\ adj'.reduce_ignored = Answers(feedback, ReduceNames, FALSE)
        /\ adj'.increase_followed = Answers(feedback, IncreaseNames, TRUE)
        /\ adj'.increase_ignored = Answers(feedback, IncreaseNames, FALSE)
        /\ adj'.total_analyzed = Total(feedback, CountedNames)
        /\ adj'.total_analyzed <= 100
      ]_vars

\* a history of 106 records whose oldest, an ignored rest, is no longer
\* among the 100 analysed: rest_ignored is 0 after the run
C24_Witness ==
    /\ response.endpoint = "trigger"
    /\ Len(feedback) = 106
    /\ feedback[1].action = "rest"
    /\ ~feedback[1].followed
    /\ adj.rest_ignored = 0
    /\ adj.total_analyzed = 95

(***************************************************************************)
(* C25: records whose action is "maintain" are excluded from the learner:  *)
(* with the other records of the analysed window unchanged, their presence *)
(* changes no multiplier, no counter and not total_analyzed. A record      *)
(* named rest, reduce, increase, active_recovery, easy or quality is       *)
(* counted in exactly one of the rest, reduce and increase categories; a   *)
(* "moderate" record is counted in a fourth category, which has no counter *)
(* of its own but enters total_analyzed; a record of any other action is   *)
(* excluded like "maintain".                                               *)
(***************************************************************************)
\* the 100 most recent records of a store kept in date order, as a store
WindowSeq(store) ==
    IF Len(store) <= 100 THEN store ELSE SubSeq(store, Len(store) - 99, Len(store))

IsNotMaintain(row) == row.action # "maintain"

WithoutMaintain(store) == SelectSeq(store, IsNotMaintain)

CategoryCounters(a) ==
    a.rest_followed + a.rest_ignored + a.reduce_followed + a.reduce_ignored
        + a.increase_followed + a.increase_ignored

MaintainExcluded == adj' = AfterAnalysis(adj, WithoutMaintain(WindowSeq(feedback)))

C25_MaintainExcludedModerateCounted ==
    [][ /\ MaintainExcluded
        /\ CategoryCounters(adj') =
              Total(feedback, RestNames \cup ReduceNames \cup IncreaseNames)
        /\ adj'.total_analyzed =
              CategoryCounters(adj') + Total(feedback, {"moderate"})
      ]_vars

\* a run over a history with four "maintain" records among others
C25_Witness ==
    /\ response.endpoint = "trigger"
    /\ Cardinality({ i \in 1 .. Len(feedback) : feedback[i].action = "maintain" }) = 4
    /\ adj.total_analyzed = Len(feedback) - 4
    /\ adj.total_analyzed >= 5

\* C25 as stated: "maintain" records are excluded, and every other record
\* is counted in exactly one of the rest, reduce and increase categories
C25_EveryOtherRecordInThreeCategories ==
    [][ /\ MaintainExcluded
        /\ CategoryCounters(adj') =
              Cardinality({ i \in Window(feedback) : feedback[i].action # "maintain" })
      ]_vars

(***************************************************************************)
(* C27: for an activity without heart-rate data the estimated load is      *)
(* duration x intensity x type factor x elevation factor, the elevation    *)
(* factor being 1.0 up to 100 m, 1.15 above 100 m up to 300 m and 1.3      *)
(* above 300 m.                                                            *)
(***************************************************************************)
\* the elevation factor of the claim, in hundredths
ClaimedElevFactor(elevation_m) ==
    IF elevation_m > 300 THEN 130
    ELSE IF elevation_m > 100 THEN 115
    ELSE 100

C27_ElevationFactorSteps ==
    (calc.phase = "load" /\ calc.activity.avg_hr = 0) =>
        calc.load = RoundDiv(calc.activity.duration_min * PaceIntensity(calc.activity)
                                * TypeFactor(calc.activity.activity_type)
                                * ClaimedElevFactor(calc.activity.elevation_m),
                             10000)

(***************************************************************************)
(* C26: detect_phase returns the deload phase whenever TSB < -20 or        *)
(* ACWR > 1.3 or the 7-day compliance is below 35%, even when the peak     *)
(* conditions hold as well; the deload confidence is never above 0.95, the *)
(* peak confidence is always 0.85, and without an auto-inferred record in  *)
(* the last seven days the compliance counts as 50%.                       *)
(***************************************************************************)
Last7Days == { i \in 1 .. Len(feedback) :
                 /\ feedback[i].auto_inferred
                 /\ feedback[i].date >= Midnight(now) - 7 * TicksPerDay }

Followed7Days == { i \in Last7Days : feedback[i].followed }

\* the 7-day compliance is below, or at least, pct percent
ComplianceBelow(pct) ==
    IF Last7Days = {} THEN 50 < pct
    ELSE 100 * Cardinality(Followed7Days) < pct * Cardinality(Last7Days)

DeloadDue == dp.tsb < 0 - 200 \/ dp.acwr > 130 \/ ComplianceBelow(35)

PeakDue == dp.ctl >= 60 /\ dp.tsb >= 0 - 50 /\ ~ComplianceBelow(70)

C26_DeloadBeforePeak ==
    dp.pc = "returned" =>
        /\ DeloadDue => (dp.result.phase = "descarga" /\ dp.result.confidence <= 9500)
        /\ dp.result.phase = "descarga" => DeloadDue
        /\ (PeakDue /\ ~DeloadDue) => dp.result.phase = "pico"
        /\ dp.result.phase = "pico" => dp.result.confidence = 8500
        /\ (Last7Days = {} /\ dp.result.phase # "None") =>
              dp.result.metrics_used.compliance_7d = 500

\* a strained athlete (ACWR 2.0) whose peak conditions all hold
C26_Witness ==
    /\ dp.pc = "returned"
    /\ PeakDue
    /\ dp.acwr = 200
    /\ dp.tsb = 0
    /\ dp.result.phase = "descarga"
    /\ dp.result.confidence = 7000

(***************************************************************************)
(* C28: a run of analyze_and_update never changes tsb_reduce_multiplier,   *)
(* readiness_low_multiplier, learning_speed or custom_min_signals; the     *)
(* answers to "increase" are counted but move no multiplier of their own;  *)
(* apart from the counters only acwr_danger_multiplier,                    *)
(* acwr_caution_multiplier and tsb_rest_multiplier can differ after a run, *)
(* and a run over an empty history changes nothing.                        *)
(***************************************************************************)
\* the row with the fields a run may write taken from another row
WithWritableOf(row, other) ==
    [ row EXCEPT !.acwr_danger_multiplier = other.acwr_danger_multiplier,
                 !.acwr_caution_multiplier = other.acwr_caution_multiplier,
                 !.tsb_rest_multiplier = other.tsb_rest_multiplier,
                 !.rest_followed = other.rest_followed,
                 !.rest_ignored = other.rest_ignored,
                 !.reduce_followed = other.reduce_followed,
                 !.reduce_ignored = other.reduce_ignored,
                 !.increase_followed = other.increase_followed,
                 !.increase_ignored = other.increase_ignored,
                 !.total_analyzed = other.total_analyzed ]

\* the history holds answers to "increase" and to nothing else that counts
OnlyIncreaseAnswers ==
    /\ Total(feedback, IncreaseNames) > 0
    /\ Total(feedback, RestNames \cup ReduceNames \cup {"moderate"}) = 0

C28_OnlyThreeMultipliersMove ==
    [][ /\ adj'.tsb_reduce_multiplier = adj.tsb_reduce_multiplier
        /\ adj'.readiness_low_multiplier = adj.readiness_low_multiplier
        /\ adj'.learning_speed = adj.learning_speed
        /\ adj'.custom_min_signals = adj.custom_min_signals
        /\ WithWritableOf(adj', adj) = adj
        /\ OnlyIncreaseAnswers =>
              (/\ adj'.acwr_danger_multiplier = adj.acwr_danger_multiplier
               /\ adj'.acwr_caution_multiplier = adj.acwr_caution_multiplier)
        /\ (feedback = << >>) => (adj' = adj)
      ]_vars

\* a run over six ignored "increase" records at speed fast
C28_Witness ==
    /\ response.endpoint = "trigger"
    /\ OnlyIncreaseAnswers
    /\ adj.increase_ignored = 6
    /\ adj.total_analyzed = 6
    /\ adj.learning_speed = "fast"
    /\ adj.tsb_reduce_multiplier = 1000
    /\ adj.readiness_low_multiplier = 1000
    /\ adj.tsb_rest_multiplier = 1015

(***************************************************************************)
(* C29: the analysis is not idempotent. While the history is unchanged and *)
(* a category has at least min_signals observations with an ignore rate    *)
(* above its high threshold, every further run raises the category's       *)
(* multiplier by 0.03 again; repeated runs eventually bring it to 1.30,    *)
(* where it stays; the counters are the same after every such run.         *)
(***************************************************************************)
HighIgnore(names, num, den) ==
    /\ Total(feedback, names) >= get_min_signals(adj)
    /\ IgnoreRateAbove(feedback, names, num, den)

CounterRow(a) ==
    << a.rest_followed, a.rest_ignored, a.reduce_followed, a.reduce_ignored,
       a.increase_followed, a.increase_ignored, a.total_analyzed >>

\* the state is the one a run over the present history has left
AlreadyAnalyzed == response.endpoint = "trigger"

FurtherRunRaisesAgain ==
    /\ (HighIgnore(RestNames, 60, 100) /\ adj.acwr_danger_multiplier <= 1270) =>
          adj'.acwr_danger_multiplier = adj.acwr_danger_multiplier + 30
    /\ (HighIgnore(ReduceNames, 65, 100) /\ adj.acwr_caution_multiplier <= 1270) =>
          adj'.acwr_caution_multiplier = adj.acwr_caution_multiplier + 30
    /\ (HighIgnore(RestNames, 60, 100) /\ adj.acwr_danger_multiplier = 1300) =>
          adj'.acwr_danger_multiplier = 1300
    /\ (HighIgnore(ReduceNames, 65, 100) /\ adj.acwr_caution_multiplier = 1300) =>
          adj'.acwr_caution_multiplier = 1300
    /\ AlreadyAnalyzed => CounterRow(adj') = CounterRow(adj)

C29_RepeatedRunsReachMaximum ==
    /\ [][FurtherRunRaisesAgain]_vars
    /\ HighIgnore(RestNames, 60, 100) ~> (adj.acwr_danger_multiplier = 1300)
    /\ HighIgnore(ReduceNames, 65, 100) ~> (adj.acwr_caution_multiplier = 1300)

\* nineteen runs over one history in which both categories are ignored:
\* acwr_caution has come from 0.715 to 1.285, acwr_danger stays at 1.30
C29_Witness ==
    /\ AlreadyAnalyzed
    /\ HighIgnore(RestNames, 60, 100)
    /\ HighIgnore(ReduceNames, 65, 100)
    /\ adj.acwr_danger_multiplier = 1300
    /\ adj.acwr_caution_multiplier = 1285

(***************************************************************************)
(* C30: in the backfill a day whose main activity has no average heart     *)
(* rate, or a duration of zero or none, is judged exactly like a day with  *)
(* no activity, whatever the length of the activity: its zone is "none",   *)
(* and it counts as followed if the action of the day is rest and as not   *)
(* followed otherwise.                                                     *)
(***************************************************************************)
\* the record of a day without the data of a main activity
NoData(row) == row.activity_avg_hr = 0 \/ row.activity_duration_min = 0

====
